---- MODULE Spec2Model ----
(***************************************************************************)
(* GraphMind query visualizer: the SQL step compiler (SQLQueryParser) and  *)
(* the incremental step executor (QueryVisualizer.execute_query_steps) of  *)
(* src/backend/query_visualizer.py, with the whole-query executor          *)
(* (execute_query) and the request handler of src/backend/main.py.         *)
(*                                                                         *)
(* A query text is the sequence of leaf tokens sqlparse yields for it      *)
(* (parsed.flatten()); the text-level operations of the code (strip,       *)
(* split on UNION, the GROUP BY / ORDER BY regular expressions) are done   *)
(* on that sequence.  A leaf token always carries a token type: the type   *)
(* None belongs to sqlparse's groups only, which flatten() never yields.   *)
(* Keywords are written in upper case and identifiers in lower case, so    *)
(* the code's value.upper() comparisons are comparisons of the values.     *)
(***************************************************************************)
EXTENDS Integers, Sequences, FiniteSets, TLC

VARIABLES
    table_rows,        \* graph_builder.table_rows: table name -> relation
    query_text,        \* the submitted request's query text (token sequence)
    mode,              \* the request's mode: "final" or "steps"
    pc,                \* position in compile_query / execute_query_steps
    step_definitions,  \* parser.parse(normalized_query)
    tables,            \* _get_tables_as_dataframes() taken by execute_query_steps
    steps,             \* the step records appended so far
    current_df,        \* current relation slot (<<>> is None, <<r>> is r)
    left_df,           \* UNION path: the left arm's current relation
    right_df,          \* UNION path: the right arm's current relation
    k,                 \* index of the next step of the running loop
    response,          \* what compile_query returned or raised
    evaluator,         \* the running request's calls, each with the DuckDB
                       \* connections it opened, used and closed
    parser             \* a SQLQueryParser a caller holds: its self.steps, and
                       \* what its compilations returned

vars == <<table_rows, query_text, mode, pc, step_definitions, tables, steps,
          current_df, left_df, right_df, k, response, evaluator, parser>>

----------------------------------------------------------------------------
(* Bounds of the model *)

MaxJoins == 2
MaxArms == 3

----------------------------------------------------------------------------
(* Tokens *)

Tok(tt, v) == [tt |-> tt, v |-> v]
Kw(v) == Tok("Keyword", v)
Dml(v) == Tok("DML", v)
Nm(v) == Tok("Name", v)
Pu(v) == Tok("Punctuation", v)
Cmp(v) == Tok("Comparison", v)
Num(v) == Tok("Integer", v)
Wild == Tok("Wildcard", "*")
SP == Tok("Whitespace", " ")
NL == Tok("Newline", "\n")

\* token.is_whitespace
IsWs(t) == t.tt \in {"Whitespace", "Newline"}
\* token.ttype is Keyword (Keyword.DML is another type)
IsKw(t) == t.tt = "Keyword"
\* token.ttype is None or token.ttype is Name
IsNoneOrName(t) == t.tt \in {"None", "Name"}
\* token.ttype is None
IsNone(t) == t.tt = "None"

\* the words of a token value; "w in value" of the code is w \in Words(value)
\* (no word of the vocabulary is part of another word but ON, and the code
\* never tests for 'ON' by containment)
Words(v) ==
    CASE v \in {"LEFT JOIN", "LEFT  JOIN"} -> {"LEFT", "JOIN"}
      [] v = "INNER JOIN" -> {"INNER", "JOIN"}
      [] v = "RIGHT JOIN" -> {"RIGHT", "JOIN"}
      [] v = "FULL JOIN" -> {"FULL", "JOIN"}
      [] v \in {"GROUP BY", "GROUP  BY"} -> {"GROUP", "BY"}
      [] v \in {"ORDER BY", "ORDER  BY"} -> {"ORDER", "BY"}
      [] v = "UNION ALL" -> {"UNION", "ALL"}
      [] OTHER -> {v}
In(w, v) == w \in Words(v)
\* 'GROUP BY' in value, 'ORDER BY' in value: the phrase with one blank
InPhrase(p, v) == v = p
\* value.startswith('GROUP')
StartsWithGroup(v) == v \in {"GROUP", "GROUP BY", "GROUP  BY"}
\* len(value.strip()) == 1 and value.strip().isalpha()
SingleLetters == {"e", "d", "p", "q"}
IsSingleLetter(v) == v \in SingleLetters

\* index of the first token at or after j that is no whitespace (Len+1 if none)
RECURSIVE SkipWs(_, _)
SkipWs(toks, j) ==
    IF j > Len(toks) THEN j
    ELSE IF IsWs(toks[j]) THEN SkipWs(toks, j + 1) ELSE j

\* index of the first token at or before j that is no whitespace (0 if none)
RECURSIVE SkipWsBack(_, _)
SkipWsBack(toks, j) ==
    IF j < 1 THEN 0
    ELSE IF IsWs(toks[j]) THEN SkipWsBack(toks, j - 1) ELSE j

\* str.strip() on a text: leading and trailing whitespace tokens removed
RECURSIVE Strip(_)
Strip(toks) ==
    IF toks = <<>> THEN <<>>
    ELSE IF IsWs(Head(toks)) THEN Strip(Tail(toks))
    ELSE IF IsWs(toks[Len(toks)]) THEN Strip(SubSeq(toks, 1, Len(toks) - 1))
    ELSE toks

\* str.rstrip(';')
RECURSIVE RStripSemi(_)
RStripSemi(toks) ==
    IF toks = <<>> THEN <<>>
    ELSE IF toks[Len(toks)] = Pu(";") THEN RStripSemi(SubSeq(toks, 1, Len(toks) - 1))
    ELSE toks

NoWs(toks) == SelectSeq(toks, LAMBDA t : ~IsWs(t))

\* index of the first token at or after i that Test holds of (Len+1 if none):
\* the tokens a loop passes over without acting on them
FirstIdx(toks, i, Test(_)) ==
    LET S == {n \in i..Len(toks) : Test(toks[n])} IN
    IF S = {} THEN Len(toks) + 1 ELSE CHOOSE n \in S : \A m \in S : n <= m

----------------------------------------------------------------------------
(* SQLQueryParser: clause extraction over parsed.flatten() *)

AddOnce(seq, v) == IF \E n \in 1..Len(seq) : seq[n] = v THEN seq ELSE Append(seq, v)

FromStopKeywords == {"JOIN", "WHERE", "GROUP", "ORDER", "HAVING"}
NotTableWords == {"INNER", "LEFT", "RIGHT", "FULL", "OUTER", "JOIN", "ON",
                  "WHERE", "GROUP", "ORDER", "HAVING", "AS"}

\* _extract_from_tables: (tables, table_name -> alias)
RECURSIVE FromScan(_, _, _, _, _)
FromScan(toks, start, from_seen, tbls, al) ==
    LET IsTable(t) == /\ ~IsWs(t) /\ t.v \notin {",", ".", "(", ")"}
                      /\ IsNoneOrName(t) /\ t.v \notin NotTableWords
                      /\ ~IsSingleLetter(t.v)
        Table(i, t, j) ==
            IF j <= Len(toks) /\ IsNoneOrName(toks[j]) /\ IsSingleLetter(toks[j].v)
            THEN FromScan(toks, j + 1, from_seen, AddOnce(tbls, t.v),
                          (t.v :> toks[j].v) @@ al)
            ELSE FromScan(toks, i + 1, from_seen, AddOnce(tbls, t.v), al)
        Visit(i) ==
            IF i > Len(toks) THEN [tables |-> tbls, aliases |-> al]
            ELSE LET t == toks[i] IN
              IF IsKw(t) /\ t.v = "FROM" THEN FromScan(toks, i + 1, TRUE, tbls, al)
              ELSE IF IsKw(t) /\ t.v \in FromStopKeywords
                   THEN [tables |-> tbls, aliases |-> al]
              ELSE Table(i, toks[i], SkipWs(toks, i + 1))
    IN  Visit(FirstIdx(toks, start, LAMBDA t :
                  \/ IsKw(t) /\ t.v = "FROM"
                  \/ from_seen /\ IsKw(t) /\ t.v \in FromStopKeywords
                  \/ from_seen /\ IsTable(t)))

_extract_from_tables(toks) == FromScan(toks, 1, FALSE, <<>>, <<>>)

JoinKinds == {"LEFT", "RIGHT", "INNER", "FULL"}

\* _parse_join_type ("" is None)
_parse_join_type(toks, i) ==
    LET v == toks[i].v IN
    IF In("LEFT", v) /\ In("JOIN", v) THEN "LEFT"
    ELSE IF In("RIGHT", v) /\ In("JOIN", v) THEN "RIGHT"
    ELSE IF In("INNER", v) /\ In("JOIN", v) THEN "INNER"
    ELSE IF In("FULL", v) /\ In("JOIN", v) THEN "FULL"
    ELSE IF v \in JoinKinds THEN
        LET n == SkipWs(toks, i + 1) IN
        IF n > Len(toks) THEN ""
        ELSE IF In("JOIN", toks[n].v) THEN v
        ELSE IF toks[n].v = "OUTER" THEN
            LET o == SkipWs(toks, n + 1) IN
            IF o <= Len(toks) /\ toks[o].v = "JOIN" THEN v \o " OUTER" ELSE ""
        ELSE ""
    ELSE IF In("JOIN", v) THEN
        LET p == SkipWsBack(toks, i - 1) IN
        IF p >= 1 /\ toks[p].v \in JoinKinds THEN toks[p].v ELSE "INNER"
    ELSE IF v = "OUTER" THEN
        LET p == SkipWsBack(toks, i - 1)
            n == SkipWs(toks, i + 1) IN
        IF p >= 1 /\ toks[p].v \in {"LEFT", "RIGHT", "FULL"}
           /\ n <= Len(toks) /\ toks[n].v = "JOIN"
        THEN toks[p].v \o " OUTER" ELSE ""
    ELSE ""

\* _extract_join_details, first loop: right table and its alias
RECURSIVE JoinTableScan(_, _, _, _)
JoinTableScan(toks, j, tname, talias) ==
    IF j > Len(toks) THEN [table |-> tname, alias |-> talias]
    ELSE LET t == toks[j] IN
      IF IsWs(t) THEN JoinTableScan(toks, j + 1, tname, talias)
      ELSE IF IsKw(t) /\ (t.v \in {"ON", "WHERE", "GROUP", "ORDER", "HAVING"}
                          \/ In("JOIN", t.v) \/ t.v \in JoinKinds)
           THEN [table |-> tname, alias |-> talias]
      ELSE IF IsNoneOrName(t) THEN
           IF tname = "" THEN
               LET n == SkipWs(toks, j + 1) IN
               IF n <= Len(toks) /\ IsNoneOrName(toks[n]) /\ IsSingleLetter(toks[n].v)
               THEN JoinTableScan(toks, n + 1, t.v, toks[n].v)
               ELSE JoinTableScan(toks, j + 1, t.v, talias)
           ELSE [table |-> tname, alias |-> talias]
      ELSE JoinTableScan(toks, j + 1, tname, talias)

JoinCondStopKeywords == {"GROUP", "WHERE", "ORDER", "HAVING", "INNER", "LEFT", "RIGHT", "FULL"}

\* _extract_join_details, second loop: the ON condition and the index it stops at
RECURSIVE JoinCondScan(_, _, _, _)
JoinCondScan(toks, j, on_seen, parts) ==
    IF j > Len(toks) THEN [parts |-> parts, next |-> j]
    ELSE LET t == toks[j]
             up == IF IsWs(t) THEN "" ELSE t.v IN
      IF IsKw(t) /\ (In("JOIN", up) \/ up \in (JoinKinds \cup {"OUTER"}))
         /\ (on_seen \/ up = "JOIN")
      THEN [parts |-> parts, next |-> j]
      ELSE IF IsKw(t) /\ t.v = "ON" THEN JoinCondScan(toks, j + 1, TRUE, parts)
      ELSE IF ~on_seen THEN JoinCondScan(toks, j + 1, on_seen, parts)
      ELSE IF IsKw(t) /\ (StartsWithGroup(up) \/ up \in JoinCondStopKeywords)
           THEN [parts |-> parts, next |-> j]
      ELSE IF IsKw(t) /\ (In("GROUP", up) \/ In("BY", up))
           THEN [parts |-> parts, next |-> j]
      ELSE JoinCondScan(toks, j + 1, on_seen, Append(parts, t))

\* _extract_join_details: (table_name, table_alias, on_condition, next index);
\* on_condition is the condition text with its whitespace collapsed
_extract_join_details(toks, start) ==
    LET Details(ta, cs) ==
            [table |-> ta.table, alias |-> ta.alias, condition |-> NoWs(cs.parts),
             next |-> cs.next]
    IN  Details(JoinTableScan(toks, start + 1, "", ""),
                JoinCondScan(toks, start + 1, FALSE, <<>>))

\* _extract_joins
RECURSIVE JoinScan(_, _, _)
JoinScan(toks, start, joins) ==
    LET is_join_related(t) ==
            \/ t.v \in (JoinKinds \cup {"OUTER", "JOIN"})
            \/ (\E jt \in JoinKinds : In(jt, t.v)) /\ In("JOIN", t.v)
        Details(i, join_type, d) ==
            IF d.table # ""
            THEN JoinScan(toks, d.next,
                          Append(joins, [type |-> join_type, right_table |-> d.table,
                                         right_table_alias |-> d.alias,
                                         condition |-> d.condition]))
            ELSE JoinScan(toks, i + 1, joins)
        Keyword(i, join_type) ==
            IF join_type = "" THEN JoinScan(toks, i + 1, joins)
            ELSE Details(i, join_type, _extract_join_details(toks, i))
        Visit(i) ==
            IF i > Len(toks) THEN joins ELSE Keyword(i, _parse_join_type(toks, i))
    IN  Visit(FirstIdx(toks, start, LAMBDA t : IsKw(t) \/ is_join_related(t)))

_extract_joins(toks) == JoinScan(toks, 1, <<>>)

\* _extract_where: the condition tokens (whitespace included), <<>> is None
RECURSIVE WhereScan(_, _, _, _)
WhereScan(toks, start, where_seen, parts) ==
    LET Visit(i) ==
            IF i > Len(toks) THEN parts
            ELSE LET t == toks[i] IN
              IF IsKw(t) /\ t.v = "WHERE" THEN WhereScan(toks, i + 1, TRUE, parts)
              ELSE IF \/ IsKw(t) /\ t.v \in {"GROUP", "ORDER", "HAVING"}
                      \/ InPhrase("GROUP BY", t.v)
                      \/ In("HAVING", t.v)
                      \/ InPhrase("ORDER BY", t.v)
                   THEN parts
              ELSE WhereScan(toks, i + 1, where_seen, Append(parts, t))
    IN  Visit(IF where_seen THEN start
              ELSE FirstIdx(toks, start, LAMBDA t : IsKw(t) /\ t.v = "WHERE"))

_extract_where(toks) == WhereScan(toks, 1, FALSE, <<>>)

\* a comma-separated column list of a text: of each part its first word, of
\* the word what follows its last '.', ASC and DESC left out, no column twice
\* (the loops over body.split(',') of the GROUP BY / ORDER BY fallbacks)
RECURSIVE ColumnList(_, _, _, _)
ColumnList(body, i, word, cols) ==
    \* word: "" before the part's first word, the word's last name while in
    \* it, "," once the part's first word is over
    LET close(w, cs) == IF w \in {"", ",", "ASC", "DESC"} THEN cs ELSE AddOnce(cs, w) IN
    IF i > Len(body) THEN
        IF word = "," THEN cols ELSE close(word, cols)
    ELSE LET t == body[i] IN
      IF t.v = "," THEN
          ColumnList(body, i + 1, "", IF word = "," THEN cols ELSE close(word, cols))
      ELSE IF word = "," THEN ColumnList(body, i + 1, word, cols)
      ELSE IF IsWs(t) THEN
          IF word = "" THEN ColumnList(body, i + 1, word, cols)
          ELSE ColumnList(body, i + 1, ",", close(word, cols))
      ELSE ColumnList(body, i + 1, IF t.v = "." THEN word ELSE t.v, cols)

IsGroupByText(t) == In("GROUP", t.v) /\ In("BY", t.v)
IsOrderByText(t) == In("ORDER", t.v) /\ In("BY", t.v)

\* index of the first token from i on whose text is in stop, or that is a
\* GROUP BY / ORDER BY when "GROUP BY" / "ORDER BY" is in stop (Len+1 if none)
FindFrom(toks, i, stop) ==
    FirstIdx(toks, i, LAMBDA t :
        \/ t.v \in stop
        \/ "GROUP BY" \in stop /\ IsGroupByText(t)
        \/ "ORDER BY" \in stop /\ IsOrderByText(t))


\* _extract_group_by, the token loop
RECURSIVE GroupByLoop(_, _, _, _, _)
GroupByLoop(toks, start, group_by_seen, by_seen, cols) ==
    LET Token(i, t, isGroup, gseen) ==
            IF isGroup /\ i + 1 <= Len(toks) /\ toks[i + 1].v = "BY"
            THEN GroupByLoop(toks, i + 2, TRUE, TRUE, cols)
            ELSE IF isGroup /\ i + 1 > Len(toks)
            THEN GroupByLoop(toks, i + 1, TRUE, by_seen \/ In("BY", t.v), cols)
            ELSE IF gseen /\ by_seen THEN
                IF IsKw(t) /\ t.v \in {"HAVING", "ORDER"} THEN cols
                ELSE IF IsNoneOrName(t) /\ t.v \notin {"HAVING", "ORDER", "BY"}
                     THEN GroupByLoop(toks, i + 1, gseen, by_seen, AddOnce(cols, t.v))
                ELSE GroupByLoop(toks, i + 1, gseen, by_seen, cols)
            ELSE GroupByLoop(toks, i + 1, gseen, by_seen, cols)
        Group(i, t, isGroup) == Token(i, t, isGroup, group_by_seen \/ isGroup)
        Visit(i) ==
            IF i > Len(toks) THEN cols
            ELSE Group(i, toks[i], IsKw(toks[i]) /\ StartsWithGroup(toks[i].v))
    IN  Visit(IF group_by_seen /\ by_seen THEN start
              ELSE FirstIdx(toks, start, LAMBDA t : IsKw(t) /\ StartsWithGroup(t.v)))

\* _extract_group_by, the fallback on the text (_RE_GROUP_BY_FALLBACK)
GroupByFallback(toks) ==
    LET Body(g, b) ==
            IF b = g + 1 \/ b > Len(toks) THEN <<>>
            ELSE ColumnList(SubSeq(toks, b,
                                   FindFrom(toks, b + 1, {"HAVING", "ORDER BY", ";"}) - 1),
                            1, "", <<>>)
        Group(g) == IF g > Len(toks) THEN <<>> ELSE Body(g, SkipWs(toks, g + 1))
    IN  Group(FindFrom(toks, 1, {"GROUP BY"}))

\* _extract_group_by (<<>> is None)
_extract_group_by(toks) ==
    LET Found(cols) == IF cols # <<>> THEN cols ELSE GroupByFallback(toks) IN
    Found(GroupByLoop(toks, 1, FALSE, FALSE, <<>>))

\* _extract_having: the condition tokens (no whitespace), <<>> is None
RECURSIVE HavingScan(_, _, _, _)
HavingScan(toks, start, having_seen, parts) ==
    LET Visit(i) ==
            IF i > Len(toks) THEN parts
            ELSE LET t == toks[i] IN
              IF IsKw(t) /\ t.v = "HAVING" THEN HavingScan(toks, i + 1, TRUE, parts)
              ELSE IF (IsKw(t) /\ t.v = "ORDER") \/ InPhrase("ORDER BY", t.v) \/ t.v = ";"
                   THEN parts
              ELSE HavingScan(toks, i + 1, having_seen,
                              IF IsWs(t) THEN parts ELSE Append(parts, t))
    IN  Visit(IF having_seen THEN start
              ELSE FirstIdx(toks, start, LAMBDA t : IsKw(t) /\ t.v = "HAVING"))

_extract_having(toks) == HavingScan(toks, 1, FALSE, <<>>)

\* _extract_select_columns (<<>> is None)
RECURSIVE SelectScan(_, _, _, _)
SelectScan(toks, start, select_seen, cols) ==
    LET IsSelect(t) == t.tt = "DML" /\ t.v = "SELECT"
        IsColumn(t) == IsNone(t) /\ t.v # "*" /\ t.v \notin {"", ",", "FROM"}
        Visit(i) ==
            IF i > Len(toks) THEN cols
            ELSE LET t == toks[i] IN
              IF t.tt = "DML" /\ t.v = "SELECT" THEN SelectScan(toks, i + 1, TRUE, cols)
              ELSE IF IsKw(t) /\ t.v = "FROM" THEN cols
              ELSE SelectScan(toks, i + 1, select_seen, Append(cols, t.v))
    IN  Visit(FirstIdx(toks, start, LAMBDA t :
                  \/ IsSelect(t)
                  \/ select_seen /\ ((IsKw(t) /\ t.v = "FROM") \/ IsColumn(t))))

_extract_select_columns(toks) == SelectScan(toks, 1, FALSE, <<>>)

\* _extract_order_by, the token loop
RECURSIVE OrderByLoop(_, _, _, _)
OrderByLoop(toks, start, order_by_seen, cols) ==
    LET Visit(i) ==
            IF i > Len(toks) THEN cols
            ELSE LET t == toks[i] IN
              IF IsKw(t) /\ t.v = "ORDER" THEN OrderByLoop(toks, i + 1, TRUE, cols)
              ELSE IF t.v = "BY" THEN OrderByLoop(toks, i + 1, order_by_seen, cols)
              ELSE IF t.v = ";" \/ (IsKw(t) /\ t.v \in {"LIMIT", "OFFSET"}) THEN cols
              ELSE IF IsNoneOrName(t) /\ t.v \notin {"ASC", "DESC"}
                   THEN OrderByLoop(toks, i + 1, order_by_seen, AddOnce(cols, t.v))
              ELSE OrderByLoop(toks, i + 1, order_by_seen, cols)
    IN  Visit(IF order_by_seen THEN start
              ELSE FirstIdx(toks, start, LAMBDA t : IsKw(t) /\ t.v = "ORDER"))

\* _extract_order_by, the fallback on the text (_RE_ORDER_BY_FALLBACK)
OrderByFallback(toks) ==
    LET Body(o, b) ==
            IF b = o + 1 \/ b > Len(toks) THEN <<>>
            ELSE ColumnList(SubSeq(toks, b, FindFrom(toks, b + 1, {";"}) - 1), 1, "", <<>>)
        Order(o) == IF o > Len(toks) THEN <<>> ELSE Body(o, SkipWs(toks, o + 1))
    IN  Order(FindFrom(toks, 1, {"ORDER BY"}))

\* _extract_order_by (<<>> is None)
_extract_order_by(toks) ==
    LET Found(cols) == IF cols # <<>> THEN cols ELSE OrderByFallback(toks) IN
    Found(OrderByLoop(toks, 1, FALSE, <<>>))

----------------------------------------------------------------------------
(* Aggregates of a HAVING condition *)

AggFuncs == {"SUM", "COUNT", "AVG", "MAX", "MIN"}
Lower(f) == CASE f = "SUM" -> "sum" [] f = "COUNT" -> "count" [] f = "AVG" -> "avg"
              [] f = "MAX" -> "max" [] f = "MIN" -> "min" [] OTHER -> f

\* a match of FUNC ( [DISTINCT] [alias .] col ) at position i of a condition
\* (_RE_AGG_WITH_ALIAS); len = 0 when there is none
AggAt(cond, i) ==
    LET n == Len(cond)
        Match(d, q, c) ==
            IF /\ cond[i].v \in AggFuncs
               /\ i + 1 <= n /\ cond[i + 1].v = "("
               /\ c + 1 <= n /\ cond[c].tt = "Name" /\ cond[c + 1].v = ")"
            THEN [len |-> c + 2 - i, func |-> cond[i].v, col |-> cond[c].v,
                  distinct |-> d = 1, prefixed |-> q = 2]
            ELSE [len |-> 0, func |-> "", col |-> "", distinct |-> FALSE, prefixed |-> FALSE]
        Qualified(d, q) == Match(d, q, i + 2 + d + q)
        Distinct(d) == Qualified(d, IF i + 3 + d <= n /\ cond[i + 3 + d].v = "." THEN 2 ELSE 0)
    IN  Distinct(IF i + 2 <= n /\ cond[i + 2].v = "DISTINCT" THEN 1 ELSE 0)

\* the first alias of base, base_2, base_3, ... that is not in used
RECURSIVE FreshAlias(_, _, _)
FreshAlias(base, idx, used) ==
    LET alias == IF idx = 1 THEN base ELSE base \o "_" \o ToString(idx) IN
    IF alias \in used THEN FreshAlias(base, idx + 1, used) ELSE alias

\* has_distinct of _extract_aggregates_with_aliases: re.search finds the first
\* func([distinct] col) of the condition, whichever aggregate is being named
RECURSIVE FirstHasDistinct(_, _, _, _)
FirstHasDistinct(cond, i, func, col) ==
    LET Found(m) ==
            IF m.len > 0 /\ m.func = func /\ m.col = col /\ ~m.prefixed THEN m.distinct
            ELSE FirstHasDistinct(cond, i + 1, func, col)
    IN  IF i > Len(cond) THEN FALSE ELSE Found(AggAt(cond, i))

RECURSIVE AggScan(_, _, _)
AggScan(cond, i, aggs) ==
    LET Found(m) ==
            IF m.len = 0 THEN AggScan(cond, i + 1, aggs)
            ELSE LET used == {aggs[n].alias : n \in 1..Len(aggs)}
                     alias == FreshAlias(Lower(m.func) \o "_" \o m.col, 1, used) IN
                 AggScan(cond, i + m.len,
                         Append(aggs, [func |-> m.func, column |-> m.col, alias |-> alias,
                                       distinct |-> FirstHasDistinct(cond, 1, m.func, m.col)]))
    IN  IF i > Len(cond) THEN aggs ELSE Found(AggAt(cond, i))

\* _extract_aggregates_with_aliases
_extract_aggregates_with_aliases(cond) == AggScan(cond, 1, <<>>)

----------------------------------------------------------------------------
(* SQLQueryParser.parse *)

STEP_FROM == "FROM"
STEP_JOIN == "JOIN"
STEP_WHERE == "WHERE"
STEP_GROUP_BY == "GROUP_BY"
STEP_HAVING == "HAVING"
STEP_SELECT == "SELECT"
STEP_ORDER_BY == "ORDER_BY"
STEP_FINAL_RESULT == "FINAL_RESULT"
STEP_UNION == "UNION"

\* a step definition with every key a step of any type may carry
StepBase ==
    [step_type |-> "", step_number |-> 0, union_side |-> "",
     tables |-> <<>>, join_type |-> "", left_table |-> "", left_table_alias |-> "",
     from_tables |-> <<>>, right_table |-> "", right_table_alias |-> "",
     condition |-> <<>>, columns |-> <<>>, aggregates |-> <<>>,
     left_query |-> <<>>, right_query |-> <<>>]

_add_step(ss, step_type, step_data) ==
    Append(ss, [step_data EXCEPT !.step_type = step_type, !.step_number = Len(ss) + 1])

\* sqlparse.parse(query_text)[0]: the first statement of the text
FirstStatement(text) ==
    LET End(e) == IF e > Len(text) THEN text ELSE SubSeq(text, 1, e) IN
    End(FindFrom(text, 1, {";"}))

\* the JOIN steps of parse
RECURSIVE AddJoins(_, _, _, _)
AddJoins(ss, joins, n, ft) ==
    IF n > Len(joins) THEN ss
    ELSE LET left_table_name == IF ft.tables # <<>> THEN ft.tables[1] ELSE ""
             left_table_alias ==
                 IF left_table_name \in DOMAIN ft.aliases
                 THEN ft.aliases[left_table_name] ELSE "" IN
         AddJoins(_add_step(ss, STEP_JOIN,
                    [StepBase EXCEPT !.join_type = joins[n].type,
                                     !.left_table = left_table_name,
                                     !.left_table_alias = left_table_alias,
                                     !.from_tables = ft.tables,
                                     !.right_table = joins[n].right_table,
                                     !.right_table_alias = joins[n].right_table_alias,
                                     !.condition = joins[n].condition]),
                  joins, n + 1, ft)

\* a variant of lines 828-852: the HAVING step alone, nothing attached
AddHavingUnattached(ss, condition) ==
    IF condition = <<>> THEN ss
    ELSE _add_step(ss, STEP_HAVING,
                   [StepBase EXCEPT !.condition = condition,
                                    !.aggregates = _extract_aggregates_with_aliases(condition)])
\* lines 828-852 of _extract_and_add_having: the HAVING step of a condition
AddHaving(ss, condition) ==
    LET Attach(aggregates) ==
            LET added == _add_step(ss, STEP_HAVING,
                                   [StepBase EXCEPT !.condition = condition,
                                                    !.aggregates = aggregates])
                groups == {n \in 1..Len(added) : added[n].step_type = STEP_GROUP_BY} IN
            IF aggregates = <<>> \/ groups = {} THEN added
            ELSE LET g == CHOOSE n \in groups : \A m \in groups : m <= n IN
                 [added EXCEPT ![g].aggregates = aggregates]
    IN  IF condition = <<>> THEN ss
        ELSE Attach(_extract_aggregates_with_aliases(condition))
\* _extract_and_add_having: the HAVING step, its aggregates attached to the
\* most recent GROUP BY step
_extract_and_add_having(ss, toks) == AddHaving(ss, _extract_having(toks))

\* lines 171-194 of parse: the FROM step, or else the JOIN steps
AddFrom(ft, joins) ==
    AddJoins(IF ft.tables # <<>> /\ Len(joins) = 0
             THEN _add_step(<<>>, STEP_FROM, [StepBase EXCEPT !.tables = ft.tables])
             ELSE <<>>,
             joins, 1, ft)

\* _extract_and_add_where
_extract_and_add_where(ss, toks) ==
    LET Add(where) ==
            IF where # <<>>
            THEN _add_step(ss, STEP_WHERE, [StepBase EXCEPT !.condition = where])
            ELSE ss
    IN  Add(_extract_where(toks))

\* _extract_and_add_group_by
_extract_and_add_group_by(ss, toks) ==
    LET Add(group_by) ==
            IF group_by # <<>>
            THEN _add_step(ss, STEP_GROUP_BY, [StepBase EXCEPT !.columns = group_by])
            ELSE ss
    IN  Add(_extract_group_by(toks))

\* _extract_and_add_select
_extract_and_add_select(ss, toks) ==
    LET Add(select_cols) ==
            IF select_cols # <<>>
            THEN _add_step(ss, STEP_SELECT, [StepBase EXCEPT !.columns = select_cols])
            ELSE ss
    IN  Add(_extract_select_columns(toks))

\* _extract_and_add_order_by
_extract_and_add_order_by(ss, toks) ==
    LET Add(order_by) ==
            IF order_by # <<>>
            THEN _add_step(ss, STEP_ORDER_BY, [StepBase EXCEPT !.columns = order_by])
            ELSE ss
    IN  Add(_extract_order_by(toks))

\* lines 171-203 of parse: the steps of one parsed statement, each clause's
\* step added to the steps ss so far
ParseStatement(toks) ==
    _extract_and_add_order_by(
        _extract_and_add_select(
            _extract_and_add_having(
                _extract_and_add_group_by(
                    _extract_and_add_where(
                        AddFrom(_extract_from_tables(toks), _extract_joins(toks)),
                        toks),
                    toks),
                toks),
            toks),
        toks)
\* parse, for a text that is not handled as a UNION (lines 164-203)
ParseSelect(text) ==
    IF text = <<>> THEN [raised |-> TRUE, steps |-> <<>>]
    ELSE [raised |-> FALSE, steps |-> ParseStatement(FirstStatement(text))]

StartsWithSelect(text) == text # <<>> /\ text[1].v = "SELECT"

\* TagSide with the side lost: every arm's steps tagged left
TagSideAlwaysLeft(ss, arm, side) ==
    ss \o [n \in 1..Len(arm) |->
             [arm[n] EXCEPT !.union_side = "left", !.step_number = Len(ss) + n]]

\* the steps of one arm appended to the UNION's list (lines 240-244, 251-255)
TagSide(ss, arm, side) ==
    ss \o [n \in 1..Len(arm) |->
             [arm[n] EXCEPT !.union_side = side, !.step_number = Len(ss) + n]]

RECURSIVE parse(_), _parse_union(_)

\* _parse_union: steps <<>> when the text is not taken as a UNION
_parse_union(query_text_) ==
    LET Arms(left_sql, right_sql) ==
            LET Both(l, r) ==
                    IF l.raised \/ r.raised THEN [raised |-> TRUE, steps |-> <<>>]
                    ELSE [raised |-> FALSE,
                          steps |-> _add_step(TagSide(TagSide(<<>>, l.steps, "left"),
                                                      r.steps, "right"),
                                              STEP_UNION,
                                              [StepBase EXCEPT !.left_query = left_sql,
                                                               !.right_query = right_sql])]
            IN  IF ~StartsWithSelect(left_sql) \/ ~StartsWithSelect(right_sql)
                THEN [raised |-> FALSE, steps |-> <<>>]
                ELSE Both(parse(left_sql), parse(right_sql))
        Split(u) ==
            IF u > Len(query_text_) THEN [raised |-> FALSE, steps |-> <<>>]
            ELSE Arms(RStripSemi(Strip(SubSeq(query_text_, 1, u - 1))),
                      RStripSemi(Strip(SubSeq(query_text_, u + 1, Len(query_text_)))))
    IN  Split(FindFrom(query_text_, 1, {"UNION"}))

\* a variant of the first statement of parse: self.steps is left as it is
KeepSteps(self_steps) == self_steps
\* self.steps = [] at the start of parse (line 154)
ResetSteps(self_steps) == <<>>

\* SQLQueryParser.parse: [raised, steps]
parse(query_text_) ==
    LET has_union == \E n \in 1..Len(query_text_) : In("UNION", query_text_[n].v)
        has_union_all == \E n \in 1..Len(query_text_) : query_text_[n].v = "UNION ALL"
        union_steps == IF has_union /\ ~has_union_all THEN _parse_union(query_text_)
                       ELSE [raised |-> FALSE, steps |-> <<>>]
    IN  IF union_steps.raised \/ union_steps.steps # <<>> THEN union_steps
        ELSE ParseSelect(query_text_)

\* parse called on an instance whose self.steps is self_steps: the list is
\* emptied, and every step is appended to it with the number
\* len(self.steps) + 1
parse_on(self_steps, query_text_) ==
    LET Onto(base, r) ==
            [raised |-> r.raised,
             steps |-> base \o [n \in 1..Len(r.steps) |->
                                  [r.steps[n] EXCEPT !.step_number = @ + Len(base)]]]
    IN  Onto(ResetSteps(self_steps), parse(query_text_))

----------------------------------------------------------------------------
(* The SQL evaluator behind con.execute(sql).fetchdf(): a relation is        *)
(* [cols, rows], a row the tuple of its values in column order; values are   *)
(* integers and Null.  A statement is read from its tokens without whitespace*)

\* a cell without a value: SQL NULL, NaN in a DataFrame
Null == -1
\* float('inf') and float('-inf') in a DataFrame
PosInf == 99
NegInf == -99
\* None in a JSON-ready value
JsonNull == -2
NumVal(v) == CASE v = "0" -> 0 [] v = "1" -> 1 [] v = "2" -> 2 [] v = "3" -> 3 [] OTHER -> 0

Canon(v) ==
    CASE v = "LEFT  JOIN" -> "LEFT JOIN"
      [] v = "GROUP  BY" -> "GROUP BY"
      [] v = "ORDER  BY" -> "ORDER BY"
      [] v = "LEFT OUTER JOIN" -> "LEFT JOIN"
      [] OTHER -> v
CanonToks(sql) ==
    LET t == NoWs(sql) IN [n \in 1..Len(t) |-> [tt |-> t[n].tt, v |-> Canon(t[n].v)]]

\* value of the token at i, "" past the end
At(T, i) == IF i >= 1 /\ i <= Len(T) THEN T[i].v ELSE ""
IsName(T, i) == i >= 1 /\ i <= Len(T) /\ T[i].tt = "Name"

\* index of the first token at or after i whose value is in stop (Len+1 if none)
RECURSIVE NextOf(_, _, _)
NextOf(T, i, stop) ==
    IF i > Len(T) THEN i
    ELSE IF T[i].v \in stop THEN i
    ELSE NextOf(T, i + 1, stop)

NoExpr == [ok |-> FALSE, kind |-> "", q |-> "", c |-> "", func |-> "",
           distinct |-> FALSE, val |-> 0, n |-> 0]

\* the expression starting at token i: a number, a column reference
\* (qualified or not), * or an aggregate call; n is the index after it
SqlExpr(T, i) ==
    LET Call(d) ==
            LET a == i + 2 + d IN
            IF At(T, a) = "*" /\ At(T, a + 1) = ")" /\ T[i].v = "COUNT" /\ d = 0
            THEN [NoExpr EXCEPT !.ok = TRUE, !.kind = "agg", !.func = "COUNT",
                                !.c = "*", !.n = a + 2]
            ELSE IF IsName(T, a) /\ At(T, a + 1) = "." /\ IsName(T, a + 2)
                    /\ At(T, a + 3) = ")"
            THEN [NoExpr EXCEPT !.ok = TRUE, !.kind = "agg", !.func = T[i].v,
                                !.distinct = d = 1, !.q = T[a].v, !.c = T[a + 2].v,
                                !.n = a + 4]
            ELSE IF IsName(T, a) /\ At(T, a + 1) = ")"
            THEN [NoExpr EXCEPT !.ok = TRUE, !.kind = "agg", !.func = T[i].v,
                                !.distinct = d = 1, !.c = T[a].v, !.n = a + 2]
            ELSE NoExpr
    IN
    IF i > Len(T) THEN NoExpr
    ELSE IF T[i].tt = "Integer"
         THEN [NoExpr EXCEPT !.ok = TRUE, !.kind = "num", !.val = NumVal(T[i].v), !.n = i + 1]
    ELSE IF T[i].tt = "Wildcard"
         THEN [NoExpr EXCEPT !.ok = TRUE, !.kind = "star", !.n = i + 1]
    ELSE IF IsName(T, i) /\ T[i].v \in AggFuncs /\ At(T, i + 1) = "("
         THEN Call(IF At(T, i + 2) = "DISTINCT" THEN 1 ELSE 0)
    ELSE IF IsName(T, i) /\ At(T, i + 1) = "." /\ IsName(T, i + 2)
         THEN [NoExpr EXCEPT !.ok = TRUE, !.kind = "col", !.q = T[i].v, !.c = T[i + 2].v,
                             !.n = i + 3]
    ELSE IF IsName(T, i)
         THEN [NoExpr EXCEPT !.ok = TRUE, !.kind = "col", !.c = T[i].v, !.n = i + 1]
    ELSE NoExpr

\* a comma-separated list of expressions filling T[i..e]: select items (AS
\* alias allowed), grouping columns, ordering keys (ASC / DESC allowed);
\* <<>> when T[i..e] is not such a list (a list is never empty)
RECURSIVE SqlList(_, _, _, _)
SqlList(T, i, e, acc) ==
    LET Entry(x, a, o, n) ==
            LET el == [e |-> x, alias |-> IF a = 2 THEN T[x.n + 1].v ELSE "",
                       desc |-> o = 1 /\ At(T, x.n) = "DESC"] IN
            IF ~x.ok \/ n > e + 1 THEN <<>>
            ELSE IF n = e + 1 THEN Append(acc, el)
            ELSE IF At(T, n) = "," THEN SqlList(T, n + 1, e, Append(acc, el))
            ELSE <<>>
        Direction(x, a, o) == Entry(x, a, o, x.n + a + o)
        Alias(x, a) ==
            Direction(x, a, IF x.ok /\ a = 0 /\ At(T, x.n) \in {"ASC", "DESC"} /\ x.n <= e
                            THEN 1 ELSE 0)
        Item(x) ==
            Alias(x, IF x.ok /\ At(T, x.n) = "AS" /\ IsName(T, x.n + 1) /\ x.n + 1 <= e
                     THEN 2 ELSE 0)
    IN  Item(SqlExpr(T, i))

CmpOps == {"=", ">", "<"}

RECURSIVE SqlCond(_, _, _, _)
\* the comparisons filling T[..e] from the one whose left operand l is read
SqlComparison(T, e, acc, l) ==
    LET Atom(r) ==
            LET at == [l |-> l, op |-> At(T, l.n), r |-> r] IN
            IF ~l.ok \/ l.kind = "star" \/ At(T, l.n) \notin CmpOps \/ l.n > e THEN <<>>
            ELSE IF ~r.ok \/ r.kind = "star" \/ r.n > e + 1 THEN <<>>
            ELSE IF r.n = e + 1 THEN Append(acc, at)
            ELSE IF At(T, r.n) = "AND" THEN SqlCond(T, r.n + 1, e, Append(acc, at))
            ELSE <<>>
    IN  Atom(SqlExpr(T, l.n + 1))
\* a condition filling T[i..e]: comparisons joined by AND; <<>> when T[i..e]
\* is not a condition
SqlCond(T, i, e, acc) == SqlComparison(T, e, acc, SqlExpr(T, i))

JoinWords == {"JOIN", "INNER JOIN", "LEFT JOIN"}
ClauseWords == JoinWords \cup {"WHERE", "GROUP BY", "HAVING", "ORDER BY"}

\* the JOIN clauses starting at token i: [ok, joins, n]
RECURSIVE SqlJoins(_, _, _)
SqlJoins(T, i, acc) ==
    IF At(T, i) \notin JoinWords THEN [ok |-> TRUE, joins |-> acc, n |-> i]
    ELSE LET a == IF IsName(T, i + 2) THEN 1 ELSE 0
             on == i + 2 + a
             e == NextOf(T, on + 1, ClauseWords) - 1
             Clause(cond) ==
                 IF ~IsName(T, i + 1) \/ At(T, on) # "ON" \/ cond = <<>>
                 THEN [ok |-> FALSE, joins |-> acc, n |-> i]
                 ELSE SqlJoins(T, e + 1,
                               Append(acc, [kind |-> IF T[i].v = "LEFT JOIN" THEN "LEFT"
                                                     ELSE "INNER",
                                            table |-> T[i + 1].v,
                                            alias |-> IF a = 1 THEN T[i + 2].v ELSE T[i + 1].v,
                                            cond |-> cond]))
         IN  Clause(SqlCond(T, on + 1, e, <<>>))

NoSelect == [ok |-> FALSE, distinct |-> FALSE, items |-> <<>>, has_from |-> FALSE,
             table |-> "", alias |-> "", joins |-> <<>>, where |-> <<>>,
             group |-> <<>>, having |-> <<>>, order |-> <<>>, n |-> 0]

\* the clause a word opens at token w, if it is there: its last token e (w - 1
\* when it is not there) and its content, a condition or a list
CondClause(T, w, word) ==
    LET e == NextOf(T, w + 1, ClauseWords) - 1 IN
    IF At(T, w) # word THEN [there |-> FALSE, e |-> w - 1, body |-> <<>>]
    ELSE [there |-> TRUE, e |-> e, body |-> SqlCond(T, w + 1, e, <<>>)]
ListClause(T, w, word) ==
    LET e == IF word = "ORDER BY" THEN Len(T) ELSE NextOf(T, w + 1, ClauseWords) - 1 IN
    IF At(T, w) # word THEN [there |-> FALSE, e |-> w - 1, body |-> <<>>]
    ELSE [there |-> TRUE, e |-> e, body |-> SqlList(T, w + 1, e, <<>>)]

\* the clauses of one SELECT statement, read in their order: each takes the
\* statement read so far, s, with s.n the token its clause would open at

\* SELECT [DISTINCT] items [FROM table [alias]]
SelectItems(T) ==
    LET d == IF At(T, 2) = "DISTINCT" THEN 1 ELSE 0
        f == NextOf(T, 2, {"FROM"} \cup ClauseWords)
        has_from == At(T, f) = "FROM"
        a == IF has_from /\ IsName(T, f + 2) THEN 1 ELSE 0
        Items(items) ==
            [NoSelect EXCEPT !.ok = /\ At(T, 1) = "SELECT" /\ items # <<>>
                                    /\ (has_from => IsName(T, f + 1)),
                             !.distinct = d = 1,
                             !.items = items,
                             !.has_from = has_from,
                             !.table = IF has_from THEN At(T, f + 1) ELSE "",
                             !.alias = IF ~has_from THEN ""
                                       ELSE IF a = 1 THEN At(T, f + 2) ELSE At(T, f + 1),
                             !.n = IF has_from THEN f + 2 + a ELSE f]
    IN  Items(SqlList(T, 2 + d, f - 1, <<>>))
SelectJoins(T, s) ==
    LET Joined(js) == [s EXCEPT !.ok = s.ok /\ js.ok, !.joins = js.joins, !.n = js.n] IN
    IF ~s.has_from THEN s ELSE Joined(SqlJoins(T, s.n, <<>>))
\* a clause that is there has a content
PutClause(s, field, c) ==
    [s EXCEPT !.ok = s.ok /\ ~(c.there /\ c.body = <<>>), ![field] = c.body, !.n = c.e + 1]
SelectWhere(T, s) == PutClause(s, "where", CondClause(T, s.n, "WHERE"))
SelectGroupBy(T, s) == PutClause(s, "group", ListClause(T, s.n, "GROUP BY"))
SelectHaving(T, s) == PutClause(s, "having", CondClause(T, s.n, "HAVING"))
SelectOrderBy(T, s) == PutClause(s, "order", ListClause(T, s.n, "ORDER BY"))
\* the structure of one SELECT statement (no set operation), ok = FALSE when
\* the text is not one: a syntax error
SqlSelect(T) ==
    LET Statement(s) ==
            IF \/ ~s.ok
               \/ s.n # Len(T) + 1
               \/ \E n \in 1..Len(s.group) : s.group[n].alias # "" \/ s.group[n].e.kind # "col"
            THEN NoSelect
            ELSE [s EXCEPT !.n = 0]
    IN  Statement(SelectOrderBy(T, SelectHaving(T, SelectGroupBy(T, SelectWhere(T,
                      SelectJoins(T, SelectItems(T)))))))

(* Evaluation.  A binding is the column list of the FROM/JOIN product: each  *)
(* column with the qualifier (alias, else table name) it is visible under.   *)

Bind(rel, q) == [n \in 1..Len(rel.cols) |-> [q |-> q, c |-> rel.cols[n]]]

\* the column a reference names: 0 when none or more than one does
Resolve(B, q, c) ==
    LET S == {n \in 1..Len(B) : B[n].c = c /\ (q = "" \/ B[n].q = q)} IN
    IF Cardinality(S) = 1 THEN CHOOSE n \in S : TRUE ELSE 0

RECURSIVE SumSeq(_)
SumSeq(s) == IF s = <<>> THEN 0 ELSE Head(s) + SumSeq(Tail(s))

RECURSIVE DistinctSeq(_)
DistinctSeq(s) ==
    IF s = <<>> THEN <<>>
    ELSE LET front == DistinctSeq(SubSeq(s, 1, Len(s) - 1))
             last == s[Len(s)] IN
         IF \E n \in 1..Len(front) : front[n] = last THEN front ELSE Append(front, last)

\* an aggregate over the rows of a group (the stores hold no fractional
\* averages)
Agg(e, B, unit) ==
    LET Over(vals) ==
            LET S == {vals[n] : n \in 1..Len(vals)} IN
            IF e.c = "*" THEN Len(unit)
            ELSE IF e.func = "COUNT" THEN Len(vals)
            ELSE IF vals = <<>> THEN Null
            ELSE IF e.func = "SUM" THEN SumSeq(vals)
            ELSE IF e.func = "MAX" THEN CHOOSE v \in S : \A w \in S : w <= v
            ELSE IF e.func = "MIN" THEN CHOOSE v \in S : \A w \in S : v <= w
            ELSE SumSeq(vals) \div Len(vals)
        NonNull(all) == Over(IF e.distinct THEN DistinctSeq(all) ELSE all)
        Column(i) ==
            NonNull(SelectSeq([n \in 1..Len(unit) |-> unit[n][i]], LAMBDA v : v # Null))
    IN  Column(Resolve(B, e.q, e.c))

\* whether an expression binds: its column exists, and is a grouping column
\* where only those are allowed; aggregates only where agg_ok
ExprOk(B, allowed, agg_ok, e) ==
    CASE e.kind = "num" -> TRUE
      [] e.kind = "col" -> Resolve(B, e.q, e.c) \in allowed
      [] e.kind = "agg" -> agg_ok /\ (e.c = "*" \/ Resolve(B, e.q, e.c) # 0)
      [] OTHER -> FALSE

\* the value of an expression on a unit: one row, or the rows of one group
EvalExpr(B, unit, e) ==
    CASE e.kind = "num" -> e.val
      [] e.kind = "col" -> unit[1][Resolve(B, e.q, e.c)]
      [] OTHER -> Agg(e, B, unit)

Compare(op, a, b) ==
    /\ a # Null /\ b # Null
    /\ CASE op = "=" -> a = b [] op = ">" -> a > b [] OTHER -> a < b

CondOk(B, allowed, agg_ok, atoms) ==
    \A n \in 1..Len(atoms) : /\ ExprOk(B, allowed, agg_ok, atoms[n].l)
                             /\ ExprOk(B, allowed, agg_ok, atoms[n].r)
CondTrue(B, unit, atoms) ==
    \A n \in 1..Len(atoms) :
        Compare(atoms[n].op, EvalExpr(B, unit, atoms[n].l), EvalExpr(B, unit, atoms[n].r))
CondHasAgg(atoms) ==
    \E n \in 1..Len(atoms) : atoms[n].l.kind = "agg" \/ atoms[n].r.kind = "agg"

Nulls(n) == [m \in 1..n |-> Null]

\* rows of L joined with rows of R, left rows from the i-th on
RECURSIVE JoinRows(_, _, _, _, _, _, _)
JoinRows(L, R, width, B, cond, kind, i) ==
    IF i > Len(L) THEN <<>>
    ELSE LET Matched(m) ==
                 (IF m = <<>> /\ kind = "LEFT" THEN <<L[i] \o Nulls(width)>> ELSE m)
                 \o JoinRows(L, R, width, B, cond, kind, i + 1)
         IN  Matched(SelectSeq([n \in 1..Len(R) |-> L[i] \o R[n]],
                               LAMBDA row : CondTrue(B, <<row>>, cond)))

\* the FROM/JOIN product of a statement: [ok, B, rows]
RECURSIVE SqlFrom(_, _, _, _, _)
SqlFrom(reg, joins, n, B, rows) ==
    IF n > Len(joins) THEN [ok |-> TRUE, B |-> B, rows |-> rows]
    ELSE LET j == joins[n] IN
      IF j.table \notin DOMAIN reg THEN [ok |-> FALSE, B |-> B, rows |-> <<>>]
      ELSE LET R == reg[j.table]
               B2 == B \o Bind(R, j.alias) IN
           IF \/ \E m \in 1..Len(B) : B[m].q = j.alias
              \/ ~CondOk(B2, 1..Len(B2), FALSE, j.cond)
           THEN [ok |-> FALSE, B |-> B, rows |-> <<>>]
           ELSE SqlFrom(reg, joins, n + 1, B2,
                        JoinRows(rows, R.rows, Len(R.cols), B2, j.cond, j.kind, 1))

\* the output columns of a select list: * stands for every column of the
\* binding; direct is the binding column an entry copies (0: computed)
RECURSIVE OutCols(_, _, _)
OutCols(B, items, n) ==
    IF n > Len(items) THEN <<>>
    ELSE LET it == items[n]
             e == it.e
             own == IF it.alias # "" THEN it.alias
                    ELSE IF e.kind = "col" THEN e.c
                    ELSE IF e.kind = "num" THEN ToString(e.val)
                    ELSE Lower(e.func) \o "(" \o (IF e.distinct THEN "DISTINCT " ELSE "")
                         \o (IF e.q # "" THEN e.q \o "." ELSE "") \o e.c \o ")" IN
         (IF e.kind = "star"
          THEN [m \in 1..Len(B) |-> [e |-> [e EXCEPT !.kind = "col", !.q = B[m].q, !.c = B[m].c],
                                     direct |-> m, name |-> B[m].c]]
          ELSE << [e |-> e, direct |-> IF e.kind = "col" THEN Resolve(B, e.q, e.c) ELSE 0,
                   name |-> own] >>)
         \o OutCols(B, items, n + 1)

OutOk(B, allowed, agg_ok, out) ==
    \A n \in 1..Len(out) :
        IF out[n].e.kind = "col" THEN out[n].direct \in allowed
        ELSE ExprOk(B, allowed, agg_ok, out[n].e)
OutVal(B, unit, o) == IF o.direct # 0 THEN unit[1][o.direct] ELSE EvalExpr(B, unit, o.e)

\* the first of name_x, name_(x+1), ... that is not taken
RECURSIVE FreshSuffix(_, _, _)
FreshSuffix(name, x, taken) ==
    IF (name \o "_" \o ToString(x)) \in taken THEN FreshSuffix(name, x + 1, taken) ELSE x

\* result column names as fetchdf() hands them out: a repeated name gets the
\* suffix _1, _2, ..., skipping the names already given out
RECURSIVE DedupScan(_, _, _, _)
DedupScan(names, n, out, count) ==
    IF n > Len(names) THEN out
    ELSE IF names[n] \notin DOMAIN count
         THEN DedupScan(names, n + 1, Append(out, names[n]), (names[n] :> 1) @@ count)
    ELSE LET x == FreshSuffix(names[n], count[names[n]], DOMAIN count)
             new == names[n] \o "_" \o ToString(x) IN
         DedupScan(names, n + 1, Append(out, new), (new :> 1) @@ (names[n] :> x) @@ count)
DedupNames(names) == DedupScan(names, 1, <<>>, [c \in {} |-> 0])

\* ordering keys: k1 before k2 (NULLs last)
RECURSIVE KeyLess(_, _, _, _)
KeyLess(k1, k2, descs, n) ==
    IF n > Len(k1) THEN FALSE
    ELSE IF k1[n] = k2[n] THEN KeyLess(k1, k2, descs, n + 1)
    ELSE IF k1[n] = Null THEN FALSE
    ELSE IF k2[n] = Null THEN TRUE
    ELSE IF descs[n] THEN k1[n] > k2[n] ELSE k1[n] < k2[n]

\* stable sort of [row, key] pairs by key
RECURSIVE SortPairs(_, _)
SortPairs(ps, descs) ==
    IF ps = <<>> THEN <<>>
    ELSE LET x == ps[Len(ps)]
             Insert(front, notAfter) ==
                 LET pos == IF notAfter = {} THEN 0
                            ELSE CHOOSE n \in notAfter : \A m \in notAfter : m <= n IN
                 SubSeq(front, 1, pos) \o <<x>> \o SubSeq(front, pos + 1, Len(front))
             Into(front) ==
                 Insert(front, {n \in 1..Len(front) : ~KeyLess(x.key, front[n].key, descs, 1)})
         IN  Into(SortPairs(SubSeq(ps, 1, Len(ps) - 1), descs))

NoResult == [ok |-> FALSE, df |-> [cols |-> <<>>, rows |-> <<>>]]

\* what the clauses of a statement are evaluated in: the statement, its
\* FROM/JOIN product, its output columns and its grouping columns (gidx);
\* grouped when the rows are put in groups
SelectBase(reg, ast) ==
    IF ~ast.has_from THEN [ok |-> TRUE, B |-> <<>>, rows |-> << <<>> >>]
    ELSE IF ast.table \notin DOMAIN reg THEN [ok |-> FALSE, B |-> <<>>, rows |-> <<>>]
    ELSE SqlFrom(reg, ast.joins, 1, Bind(reg[ast.table], ast.alias), reg[ast.table].rows)
SelectOutput(ast, base, out, gidx) ==
    [ast |-> ast, ok |-> ast.ok /\ base.ok, B |-> base.B, rows |-> base.rows, out |-> out,
     gidx |-> gidx,
     grouped |-> \/ ast.group # <<>> \/ ast.having # <<>>
                 \/ \E n \in 1..Len(out) : out[n].e.kind = "agg"
                 \/ \E n \in 1..Len(ast.order) : ast.order[n].e.kind = "agg"]
SelectFrom(ast, base) ==
    SelectOutput(ast, base, OutCols(base.B, ast.items, 1),
                 [n \in 1..Len(ast.group) |->
                     Resolve(base.B, ast.group[n].e.q, ast.group[n].e.c)])
SelectContext(reg, ast) == SelectFrom(ast, SelectBase(reg, ast))

\* the columns a clause may name: the grouping columns of a grouped statement
Allowed(c) == IF c.grouped THEN {c.gidx[n] : n \in 1..Len(c.gidx)} ELSE 1..Len(c.B)
\* an ordering key that names an output column is that column
ByName(c, e) == {n \in 1..Len(c.out) : e.kind = "col" /\ e.q = "" /\ c.out[n].name = e.c}
KeyVal(c, u, e) ==
    IF Cardinality(ByName(c, e)) = 1 THEN OutVal(c.B, u, c.out[CHOOSE n \in ByName(c, e) : TRUE])
    ELSE EvalExpr(c.B, u, e)
\* whether the statement binds
SelectOk(c) ==
    /\ c.ok
    /\ CondOk(c.B, 1..Len(c.B), FALSE, c.ast.where)
    /\ 0 \notin {c.gidx[n] : n \in 1..Len(c.gidx)}
    /\ OutOk(c.B, Allowed(c), c.grouped, c.out)
    /\ CondOk(c.B, Allowed(c), c.grouped, c.ast.having)
    /\ \A n \in 1..Len(c.ast.order) :
           \/ Cardinality(ByName(c, c.ast.order[n].e)) = 1
           \/ ExprOk(c.B, Allowed(c), c.grouped, c.ast.order[n].e)
\* the rows the WHERE clause keeps
WhereRows(c) == SelectSeq(c.rows, LAMBDA row : CondTrue(c.B, <<row>>, c.ast.where))
GroupKey(c, row) == [n \in 1..Len(c.gidx) |-> row[c.gidx[n]]]
\* the units the output is computed on: each row, or each group of rows
GroupUnits(c, filtered) ==
    LET keys == DistinctSeq([n \in 1..Len(filtered) |-> GroupKey(c, filtered[n])]) IN
    IF ~c.grouped THEN [n \in 1..Len(filtered) |-> <<filtered[n]>>]
    ELSE IF c.ast.group = <<>> THEN <<filtered>>
    ELSE [n \in 1..Len(keys) |-> SelectSeq(filtered, LAMBDA row : GroupKey(c, row) = keys[n])]
\* the units the HAVING clause keeps
HavingUnits(c, units) == SelectSeq(units, LAMBDA u : CondTrue(c.B, u, c.ast.having))
\* the output row of each unit with its ordering key
OutputPairs(c, kept) ==
    [n \in 1..Len(kept) |->
        [row |-> [m \in 1..Len(c.out) |-> OutVal(c.B, kept[n], c.out[m])],
         key |-> [m \in 1..Len(c.ast.order) |-> KeyVal(c, kept[n], c.ast.order[m].e)]]]
OrderedRows(c, pairs) ==
    LET Rows(sorted) == [n \in 1..Len(sorted) |-> sorted[n].row] IN
    Rows(SortPairs(pairs, [m \in 1..Len(c.ast.order) |-> c.ast.order[m].desc]))
DistinctRows(c, rows) == IF c.ast.distinct THEN DistinctSeq(rows) ELSE rows
SelectResult(c) ==
    IF ~SelectOk(c) THEN NoResult
    ELSE [ok |-> TRUE,
          df |-> [cols |-> DedupNames([n \in 1..Len(c.out) |-> c.out[n].name]),
                  rows |-> DistinctRows(c, OrderedRows(c, OutputPairs(c,
                               HavingUnits(c, GroupUnits(c, WhereRows(c))))))]]
\* one SELECT statement on the registered tables: [ok, df]
SqlEvalSelect(reg, T) == SelectResult(SelectContext(reg, SqlSelect(T)))

\* one arm of a statement: a SELECT, or a VALUES list of one row of numbers
SqlArm(reg, T) ==
    LET Values(vals) ==
            IF \/ At(T, 2) # "(" \/ At(T, Len(T)) # ")" \/ vals = <<>>
               \/ \E n \in 1..Len(vals) : vals[n].e.kind # "num" \/ vals[n].alias # ""
            THEN NoResult
            ELSE [ok |-> TRUE,
                  df |-> [cols |-> [n \in 1..Len(vals) |-> "col" \o ToString(n - 1)],
                          rows |-> << [n \in 1..Len(vals) |-> vals[n].e.val] >>]]
    IN  IF At(T, 1) # "VALUES" THEN SqlEvalSelect(reg, T)
        ELSE Values(SqlList(T, 3, Len(T) - 1, <<>>))

SetOps == {"UNION", "UNION ALL"}

\* the arms of a statement from the one after token i on: i = 0 for the first
\* arm, else the set operator joining the arm to the result acc so far; an
\* ORDER BY closing the last arm orders the whole result by output column
RECURSIVE SqlSetOps(_, _, _, _)
SqlSetOps(reg, T, i, acc) ==
    IF i > Len(T) \/ ~acc.ok THEN acc
    ELSE LET u == NextOf(T, i + 1, SetOps)
             arm == SubSeq(T, i + 1, u - 1)
             o == IF u > Len(T) /\ i > 0 THEN NextOf(arm, 1, {"ORDER BY"}) ELSE Len(arm) + 1
             Merge(order, r) ==
                 LET cols == IF i = 0 THEN r.df.cols ELSE acc.df.cols
                     idx(e) ==
                         {n \in 1..Len(cols) : e.kind = "col" /\ e.q = "" /\ cols[n] = e.c}
                     rows == IF i = 0 THEN r.df.rows
                             ELSE IF T[i].v = "UNION" THEN DistinctSeq(acc.df.rows \o r.df.rows)
                             ELSE acc.df.rows \o r.df.rows
                     Rows(sorted) ==
                         SqlSetOps(reg, T, u,
                                   [ok |-> TRUE,
                                    df |-> [cols |-> cols,
                                            rows |-> [n \in 1..Len(sorted) |-> sorted[n].row]]])
                 IN
                 IF \/ ~r.ok \/ (i > 0 /\ Len(r.df.cols) # Len(acc.df.cols))
                    \/ (u <= Len(T) /\ NextOf(arm, 1, {"ORDER BY"}) <= Len(arm))
                    \/ (o <= Len(arm) /\ order = <<>>)
                    \/ \E m \in 1..Len(order) : Cardinality(idx(order[m].e)) # 1
                 THEN NoResult
                 ELSE Rows(SortPairs(
                          [n \in 1..Len(rows) |->
                              [row |-> rows[n],
                               key |-> [m \in 1..Len(order) |->
                                           rows[n][CHOOSE c \in idx(order[m].e) : TRUE]]]],
                          [m \in 1..Len(order) |-> order[m].desc]))
         IN  Merge(IF o <= Len(arm) THEN SqlList(arm, o + 1, Len(arm), <<>>) ELSE <<>>,
                   SqlArm(reg, SubSeq(arm, 1, o - 1)))

\* a set of strings as a sequence
RECURSIVE SetToSeq(_)
SetToSeq(S) ==
    IF S = {} THEN <<>>
    ELSE LET x == CHOOSE y \in S : TRUE IN <<x>> \o SetToSeq(S \ {x})

\* a cell that holds a string: cells are numbers, a table name is written as
\* a number of its own
StrCell(name) ==
    CASE name = "dept" -> 11 [] name = "emp" -> 12 [] name = "proj" -> 13 [] OTHER -> 10

\* con.execute(sql).fetchdf() on a connection with the relations of reg
\* registered: [ok, df], ok = FALSE when the statement raises.  The
\* registered relations are views: a statement that drops, deletes from or
\* updates one raises, like any text that is no statement.
con_execute(reg, sql) ==
    LET names == [n \in 1..Cardinality(DOMAIN reg) |-> StrCell(SetToSeq(DOMAIN reg)[n])]
        T == CanonToks(sql) IN
    IF T = <<>> THEN NoResult
    ELSE IF Len(T) = 2 /\ T[1].v = "SHOW" /\ T[2].v = "TABLES"
         THEN [ok |-> TRUE,
               df |-> [cols |-> <<"name">>, rows |-> [n \in 1..Len(names) |-> <<names[n]>>]]]
    ELSE SqlSetOps(reg, T, 0, [ok |-> TRUE, df |-> [cols |-> <<>>, rows |-> <<>>]])

----------------------------------------------------------------------------
(* QueryVisualizer: helpers *)

\* what happens to DuckDB connections: duckdb.connect(), con.execute(sql),
\* con.close()
Connect == [ev |-> "connect", sql |-> <<>>]
Execute(sql) == [ev |-> "execute", sql |-> sql]
Close == [ev |-> "close", sql |-> <<>>]

\* the statements of sqls a with block gets to execute: all up to the first
\* that raises (raised[n] tells whether the n-th does)
RECURSIVE Attempted(_, _)
Attempted(sqls, raised) ==
    IF sqls = <<>> THEN <<>>
    ELSE IF raised[1] THEN <<sqls[1]>>
    ELSE <<sqls[1]>> \o Attempted(Tail(sqls), Tail(raised))

\* a variant of _db_connection without the finally: a statement that raises
\* leaves the connection as it is
_db_connection_without_finally(sqls, raised) ==
    LET ran == Attempted(sqls, raised) IN
    <<Connect>> \o [n \in 1..Len(ran) |-> Execute(ran[n])]
    \o (IF \E n \in 1..Len(ran) : raised[n] THEN <<>> ELSE <<Close>>)
\* _db_connection around a block that executes sqls in turn: the connection
\* is made, the block runs until a statement raises, and finally: con.close()
_db_connection(sqls, raised) ==
    LET ran == Attempted(sqls, raised) IN
    <<Connect>> \o [n \in 1..Len(ran) |-> Execute(ran[n])] \o <<Close>>

TABLE_LEFT == "left_table"
TABLE_INPUT == "input_table"
TABLE_JOINED_RESULT == "joined_result"
TABLE_FILTERED_RESULT == "filtered_result"
TABLE_GROUPED_RESULT == "grouped_result"
TABLE_FILTERED_GROUPS == "filtered_groups"
TABLE_PROJECTED_RESULT == "projected_result"
TABLE_SORTED_RESULT == "sorted_result"

None == <<>>
Some(x) == <<x>>

\* a variant of _get_tables_as_dataframes: every table of the store
_get_tables_as_dataframes_all(store) == store
\* _get_tables_as_dataframes: the tables of the store that have rows
_get_tables_as_dataframes(store) ==
    LET names == {t \in DOMAIN store : store[t].rows # <<>>} IN
    [t \in names |-> store[t]]

\* a variant of the float branch: NaN alone gives None
_clean_for_json_nan_only(obj) == IF obj = Null THEN JsonNull ELSE obj
\* _clean_for_json on a cell (np.integer, np.floating, float, None):
\* if pd.isna(obj) or math.isnan(obj) or math.isinf(obj): return None
_clean_for_json_value(obj) == IF obj \in {Null, PosInf, NegInf} THEN JsonNull ELSE obj

\* _clean_for_json on a DataFrame's obj.to_dict("records") and on a list of
\* row dicts: every row, and in a row every cell
_clean_for_json(records) ==
    [r \in 1..Len(records) |->
        [c \in 1..Len(records[r]) |-> _clean_for_json_value(records[r][c])]]

\* pd.DataFrame(data) of row dicts: a None cell of a numeric column is NaN
FromRecords(data) ==
    [r \in 1..Len(data) |->
        [c \in 1..Len(data[r]) |-> IF data[r][c] = JsonNull THEN Null ELSE data[r][c]]]

\* df.empty
IsEmptyDf(df) == df.rows = <<>> \/ df.cols = <<>>

\* _dataframe_to_table_dict (df is None or <<relation>>)
_dataframe_to_table_dict(df, name) ==
    IF df = None \/ IsEmptyDf(df[1])
    THEN [name |-> name, columns |-> <<>>, data |-> <<>>, row_count |-> 0]
    ELSE [name |-> name, columns |-> df[1].cols, data |-> _clean_for_json(df[1].rows),
          row_count |-> Len(df[1].rows)]

\* the values of the tokens of a condition, as its text shows them
TokenValues(toks) == [n \in 1..Len(toks) |-> toks[n].v]

\* a step execution record; error is the message of _create_error_step
\* ("" on a record that is not an error step); explanation is the text after
\* "Step <n>: ", its fixed part first and then the names it lists
StepRecord(step_number, step_type, input_tables, output_table, error, explanation) ==
    [step_number |-> step_number, step_type |-> step_type,
     input_tables |-> input_tables, output_table |-> output_table, error |-> error,
     explanation |-> explanation]

\* _clean_for_json on a table dict and on a step dict: the dict with every
\* value cleaned (strings and counts stay)
_clean_for_json_table(tbl) == [tbl EXCEPT !.data = _clean_for_json(tbl.data)]
_clean_for_json_step(rec) ==
    [rec EXCEPT !.input_tables = [n \in 1..Len(rec.input_tables) |->
                                     _clean_for_json_table(rec.input_tables[n])],
                !.output_table = IF rec.output_table = None THEN None
                                 ELSE Some(_clean_for_json_table(rec.output_table[1]))]

\* the current relation slot a loop threads: (current_df, current_table_name)
NoCurrent == [df |-> None, name |-> ""]

\* _create_error_step; a step result is the record with its _dataframe and
\* _table_name
_create_error_step(step_type, step_number, error_msg) ==
    [rec |-> StepRecord(step_number, step_type, <<>>, None, error_msg,
                        <<step_type, error_msg>>),
     df |-> None, name |-> "", log |-> <<>>]

\* a variant of _update_step_state: a current relation, once there is one,
\* is kept
_update_step_state_once(step_result, current) ==
    IF current.df = None /\ step_result.df # None
    THEN [df |-> step_result.df, name |-> step_result.name]
    ELSE current
\* _update_step_state: the current relation slot after a step
_update_step_state(step_result, current) ==
    LET rec == step_result.rec IN
    IF step_result.df # None THEN [df |-> step_result.df, name |-> step_result.name]
    ELSE IF rec.output_table # None
         THEN IF rec.output_table[1].data # <<>>
              THEN [df |-> Some([cols |-> rec.output_table[1].columns,
                                 rows |-> FromRecords(rec.output_table[1].data)]),
                    name |-> rec.output_table[1].name]
              ELSE current
    ELSE IF rec.step_type = STEP_FROM /\ rec.input_tables # <<>>
         THEN IF rec.input_tables[1].data # <<>>
              THEN [df |-> Some([cols |-> rec.input_tables[1].columns,
                                 rows |-> FromRecords(rec.input_tables[1].data)]),
                    name |-> rec.input_tables[1].name]
              ELSE current
    ELSE current

IsWord(T, i) == i >= 1 /\ i <= Len(T) /\ T[i].tt \in {"Name", "Integer", "Keyword", "DML"}

\* _strip_table_aliases: every prefix. of a prefix.column dropped
RECURSIVE StripScan(_, _)
StripScan(T, i) ==
    IF i > Len(T) THEN <<>>
    ELSE IF IsWord(T, i) /\ At(T, i + 1) = "." /\ IsWord(T, i + 2)
         THEN <<T[i + 2]>> \o StripScan(T, i + 3)
    ELSE <<T[i]>> \o StripScan(T, i + 1)
_strip_table_aliases(expression) == StripScan(NoWs(expression), 1)

\* re.sub(r'\b{alias}\.', '{name}.', condition)
ReplaceQualifier(T, alias, name) ==
    [n \in 1..Len(T) |->
        IF T[n].v = alias /\ IsWord(T, n) /\ At(T, n + 1) = "." THEN Nm(name) ELSE T[n]]

\* a comma-separated list of names as text
RECURSIVE CommaList(_)
CommaList(cols) ==
    IF cols = <<>> THEN <<>>
    ELSE IF Len(cols) = 1 THEN <<Nm(cols[1])>>
    ELSE <<Nm(cols[1]), Pu(",")>> \o CommaList(Tail(cols))

\* the largest N of a column suffix _N the model's relations can carry
MaxSuffix == 3

\* suffix_map[col][0] of _fix_join_condition_aliases: the first column of
\* left_cols named col_<number>, "" when there is none
SuffixMatch(left_cols, col) ==
    LET S == {n \in 1..Len(left_cols) :
                 \E x \in 1..MaxSuffix : left_cols[n] = col \o "_" \o ToString(x)} IN
    IF S = {} THEN "" ELSE left_cols[CHOOSE n \in S : \A m \in S : n <= m]

\* str.lower() on a column name, of the spellings the texts and relations
\* have
str_lower(w) ==
    CASE w = "Eid" -> "eid" [] w = "Dno" -> "dno" [] w = "Loc" -> "loc" [] OTHER -> w

\* left_cols_lower_map.get(col.lower()), "" when there is no such key: of the
\* columns equal to col ignoring case, the last one
LowerMatch(left_cols, col) ==
    LET S == {n \in 1..Len(left_cols) : str_lower(left_cols[n]) = str_lower(col)} IN
    IF S = {} THEN "" ELSE left_cols[CHOOSE n \in S : \A m \in S : n >= m]

\* _fix_join_condition_aliases, lines 1767-1830: the alias.column references
\* left after the alias replacements, resolved against the left relation
RECURSIVE ResolveOldAliases(_, _, _, _)
ResolveOldAliases(T, i, skip, left_cols) ==
    IF i > Len(T) THEN <<>>
    ELSE IF IsWord(T, i) /\ At(T, i + 1) = "." /\ IsWord(T, i + 2)
         THEN LET col == T[i + 2].v
                  matching_col ==
                      IF SuffixMatch(left_cols, col) # "" THEN SuffixMatch(left_cols, col)
                      ELSE IF \E n \in 1..Len(left_cols) : left_cols[n] = col THEN col
                      ELSE LowerMatch(left_cols, col) IN
              (IF T[i].v \in skip THEN SubSeq(T, i, i + 2)
               ELSE IF matching_col # "" THEN <<Nm(matching_col)>>
               ELSE <<Nm(TABLE_LEFT), Pu("."), Nm(col)>>)
              \o ResolveOldAliases(T, i + 3, skip, left_cols)
    ELSE <<T[i]>> \o ResolveOldAliases(T, i + 1, skip, left_cols)

\* _fix_join_condition_aliases ("" is no alias; left_df is always given)
_fix_join_condition_aliases(condition, left_table, right_table, left_alias, right_alias, left_cols) ==
    LET c1 == IF right_alias # "" THEN ReplaceQualifier(condition, right_alias, right_table)
              ELSE condition
        c2 == IF left_alias # "" THEN ReplaceQualifier(c1, left_alias, TABLE_LEFT) ELSE c1
        skip == ({right_alias, left_alias} \ {""}) \cup {TABLE_LEFT, left_table, right_table}
        c3 == ResolveOldAliases(c2, 1, skip, left_cols) IN
    IF condition = <<>> THEN condition
    ELSE IF right_alias = "" THEN ReplaceQualifier(c3, "m", right_table) ELSE c3

----------------------------------------------------------------------------
(* QueryVisualizer: the whole-query executor and the step executors *)

\* the statements of a text: split at ';', stripped, the empty ones dropped
RECURSIVE Statements(_)
Statements(text) ==
    LET e == NextOf(text, 1, {";"})
        stmt == Strip(SubSeq(text, 1, e - 1))
        rest == IF e >= Len(text) THEN <<>> ELSE Statements(SubSeq(text, e + 1, Len(text))) IN
    IF text = <<>> THEN <<>>
    ELSE IF stmt = <<>> THEN rest ELSE <<stmt>> \o rest

\* a variant of sql_to_run: the first statement
sql_to_run_first(statements) == statements[1]
\* sql_to_run = statements[-1]
sql_to_run(statements) == statements[Len(statements)]

\* execute_query: [ok, error, columns, rows]; ok = FALSE when it raises
\* ValueError; log is what it did to DuckDB connections
execute_query(store, text) ==
    LET statements == Statements(Strip(text))
        tbls == _get_tables_as_dataframes(store)
        failed(msg) == [ok |-> FALSE, error |-> msg, columns |-> <<>>, rows |-> <<>>,
                        log |-> <<>>]
        Result(r) ==
            [ok |-> r.ok, error |-> IF r.ok THEN "" ELSE "Error executing SQL query",
             columns |-> IF r.ok THEN r.df.cols ELSE <<>>,
             rows |-> IF r.ok THEN _clean_for_json(r.df.rows) ELSE <<>>,
             log |-> _db_connection(<<sql_to_run(statements)>>, <<~r.ok>>)]
    IN  IF Strip(text) = <<>> THEN failed("Query text must be a non-empty string")
        ELSE IF statements = <<>>
             THEN failed("Query text must contain at least one SQL statement")
        ELSE IF DOMAIN tbls = {} THEN failed("No tables available. Please upload data first.")
        ELSE Result(con_execute(tbls, sql_to_run(statements)))

\* the outcome of a query a step runs in a with block of its own:
\* (result_df, output_table)
Ran(r, name, sql) ==
    [df |-> IF r.ok THEN Some(r.df) ELSE None,
     output_table |-> IF r.ok THEN Some(_dataframe_to_table_dict(Some(r.df), name)) ELSE None,
     log |-> _db_connection(<<sql>>, <<~r.ok>>)]

SelectStarFrom(name) == <<Dml("SELECT"), SP, Wild, SP, Kw("FROM"), SP, Nm(name)>>

\* _execute_from_step
_execute_from_step(step_def, tbls) ==
    LET present == SelectSeq(step_def.tables, LAMBDA t : t \in DOMAIN tbls)
        input_tables == [n \in 1..Len(present) |->
                            _dataframe_to_table_dict(Some(tbls[present[n]]), present[n])] IN
    [rec |-> StepRecord(step_def.step_number, STEP_FROM, input_tables,
                        IF input_tables # <<>> THEN Some(input_tables[1]) ELSE None, "",
                        <<"Loading table(s)">> \o step_def.tables),
     df |-> IF present # <<>> THEN Some(tbls[present[1]]) ELSE None,
     name |-> IF present # <<>> THEN present[1] ELSE "", log |-> <<>>]

\* _normalize_join_keyword
_normalize_join_keyword(join_type) ==
    CASE join_type = "LEFT OUTER" -> "LEFT OUTER"
      [] join_type = "RIGHT OUTER" -> "RIGHT OUTER"
      [] join_type = "FULL OUTER" -> "FULL OUTER"
      [] OTHER -> join_type

\* join_sql and fallback_sql of _execute_join_query
JoinSql(join_keyword, right_table_name, fixed_condition) ==
    LET on == IF fixed_condition # <<>> THEN <<SP, Kw("ON"), SP>> \o fixed_condition
              ELSE <<>> IN
    << SelectStarFrom(TABLE_LEFT)
       \o <<SP, Kw(join_keyword \o " JOIN"), SP, Nm(right_table_name)>> \o on,
       SelectStarFrom(TABLE_LEFT) \o <<SP, Kw("JOIN"), SP, Nm(right_table_name)>> \o on >>

\* try: with ...: con.execute(join_sql) / except: with ...:
\* con.execute(fallback_sql): the outcome of the first statement of sqls that
\* does not raise, else of the last, each statement in a with block of its own
RECURSIVE TryEach(_, _, _)
TryEach(reg, sqls, name) ==
    LET Then(q, rest) == [rest EXCEPT !.log = q.log \o rest.log]
        First(r) == IF r.ok \/ Len(sqls) = 1 THEN Ran(r, name, sqls[1])
                    ELSE Then(Ran(r, name, sqls[1]), TryEach(reg, Tail(sqls), name)) IN
    First(con_execute(reg, sqls[1]))
\* _execute_join_query: (result_df, output_table)
_execute_join_query(left_rel, right_rel, join_type, join_condition, left_table_name, right_table_name, left_table_alias, right_table_alias) ==
    TryEach((right_table_name :> right_rel) @@ (TABLE_LEFT :> left_rel),
            JoinSql(_normalize_join_keyword(join_type), right_table_name,
                    _fix_join_condition_aliases(join_condition, left_table_name,
                                                right_table_name, left_table_alias,
                                                right_table_alias, left_rel.cols)),
            TABLE_JOINED_RESULT)

\* a variant of LoadedLeft: the FROM table is loaded whenever it is there
LoadedLeftAnew(step_def, cur, tbls) ==
    IF step_def.left_table # "" /\ step_def.left_table \in DOMAIN tbls
    THEN [df |-> Some(tbls[step_def.left_table]), name |-> step_def.left_table]
    ELSE cur
\* lines 1605-1614 of _execute_join_step: the left relation, the current one
\* or else the first table that is loaded
LoadedLeft(step_def, cur, tbls) ==
    IF cur.df # None THEN cur
    ELSE IF step_def.left_table # "" /\ step_def.left_table \in DOMAIN tbls
         THEN [df |-> Some(tbls[step_def.left_table]), name |-> step_def.left_table]
    ELSE IF step_def.from_tables # <<>> /\ step_def.from_tables[1] \in DOMAIN tbls
         THEN [df |-> Some(tbls[step_def.from_tables[1]]), name |-> step_def.from_tables[1]]
    ELSE NoCurrent
\* _execute_join_step
_execute_join_step(step_def, cur, tbls) ==
    LET loaded == LoadedLeft(step_def, cur, tbls)
        right_table_name == step_def.right_table
        left_name == IF loaded.name # "" THEN loaded.name ELSE TABLE_LEFT
        Done(q) ==
            [rec |-> StepRecord(step_def.step_number, STEP_JOIN,
                                <<_dataframe_to_table_dict(loaded.df, left_name),
                                  _dataframe_to_table_dict(Some(tbls[right_table_name]),
                                                           right_table_name)>>,
                                q.output_table, "",
                                <<step_def.join_type, "JOIN", right_table_name>>),
             df |-> q.df, name |-> TABLE_JOINED_RESULT, log |-> q.log]
    IN  IF loaded.df = None
        THEN _create_error_step(STEP_JOIN, step_def.step_number, "missing left table")
        ELSE IF right_table_name \notin DOMAIN tbls
        THEN _create_error_step(STEP_JOIN, step_def.step_number,
                                "missing right table: " \o right_table_name)
        ELSE Done(_execute_join_query(loaded.df[1], tbls[right_table_name],
                                      step_def.join_type, step_def.condition, left_name,
                                      right_table_name, step_def.left_table_alias,
                                      step_def.right_table_alias))

InputName(cur) == IF cur.name # "" THEN cur.name ELSE "input"

\* _execute_filter_query: (result_df, output_table)
_execute_filter_query(df, condition, result_table_name) ==
    LET fixed_condition == _strip_table_aliases(condition)
        filter_sql == SelectStarFrom(TABLE_INPUT) \o <<SP, Kw("WHERE"), SP>> \o fixed_condition IN
    Ran(con_execute((TABLE_INPUT :> df), filter_sql), result_table_name, filter_sql)

\* _execute_where_step
_execute_where_step(step_def, cur) ==
    LET Done(q) ==
            [rec |-> StepRecord(step_def.step_number, STEP_WHERE,
                                <<_dataframe_to_table_dict(cur.df, InputName(cur))>>,
                                q.output_table, "",
                                <<"Filtering rows WHERE">> \o TokenValues(step_def.condition)),
             df |-> q.df, name |-> TABLE_FILTERED_RESULT, log |-> q.log]
    IN  IF cur.df = None THEN _create_error_step(STEP_WHERE, step_def.step_number, "no input")
        ELSE Done(_execute_filter_query(cur.df[1], step_def.condition, TABLE_FILTERED_RESULT))

\* lines 2036-2076 of _execute_group_by_query: a grouping column as the
\* query names it (the parser hands over names without a prefix, and every
\* column of the model is written in lower case)
NormalizeGroupCol(col, actual_df_cols) == col

\* the aggregate expressions of the grouping SELECT, each with its comma
RECURSIVE AggParts(_)
AggParts(aggregates) ==
    IF aggregates = <<>> THEN <<>>
    ELSE LET agg == Head(aggregates) IN
         <<Pu(","), SP, Nm(agg.func), Pu("(")>>
         \o (IF agg.distinct THEN <<Kw("DISTINCT"), SP>> ELSE <<>>)
         \o <<Nm(agg.column), Pu(")"), SP, Kw("AS"), SP, Nm(agg.alias)>>
         \o AggParts(Tail(aggregates))

\* _execute_group_by_query: (result_df, output_table)
_execute_group_by_query(df, group_cols, aggregates) ==
    LET Sql(names) ==
            IF aggregates # <<>>
            THEN <<Dml("SELECT"), SP>> \o names \o AggParts(aggregates)
                 \o <<SP, Kw("FROM"), SP, Nm(TABLE_INPUT), SP, Kw("GROUP BY"), SP>> \o names
            ELSE <<Dml("SELECT"), SP, Kw("DISTINCT"), SP>> \o names
                 \o <<SP, Kw("FROM"), SP, Nm(TABLE_INPUT)>>
        group_by_sql ==
            Sql(CommaList([n \in 1..Len(group_cols) |->
                              NormalizeGroupCol(group_cols[n], df.cols)]))
    IN  Ran(con_execute((TABLE_INPUT :> df), group_by_sql), TABLE_GROUPED_RESULT, group_by_sql)

\* _execute_group_by_step
_execute_group_by_step(step_def, cur) ==
    LET Done(q) ==
            [rec |-> StepRecord(step_def.step_number, STEP_GROUP_BY,
                                <<_dataframe_to_table_dict(cur.df, InputName(cur))>>,
                                q.output_table, "",
                                <<"Grouping by">> \o step_def.columns),
             df |-> q.df, name |-> TABLE_GROUPED_RESULT, log |-> q.log]
    IN  IF cur.df = None
        THEN _create_error_step(STEP_GROUP_BY, step_def.step_number, "no input")
        ELSE Done(_execute_group_by_query(cur.df[1], step_def.columns, step_def.aggregates))

\* pattern.sub(alias, condition) of _execute_having_query: FUNC([DISTINCT] col)
\* replaced by the aggregate's alias
RECURSIVE ReplaceAgg(_, _, _)
ReplaceAgg(T, i, agg) ==
    IF i > Len(T) THEN <<>>
    ELSE LET d == IF At(T, i + 2) = "DISTINCT" THEN 1 ELSE 0 IN
         IF /\ T[i].v = agg.func /\ At(T, i + 1) = "("
            /\ At(T, i + 2 + d) = agg.column /\ At(T, i + 3 + d) = ")"
         THEN <<Nm(agg.alias)>> \o ReplaceAgg(T, i + 4 + d, agg)
         ELSE <<T[i]>> \o ReplaceAgg(T, i + 1, agg)

RECURSIVE ReplaceAggs(_, _)
ReplaceAggs(T, aggregates) ==
    IF aggregates = <<>> THEN T
    ELSE ReplaceAggs(ReplaceAgg(T, 1, Head(aggregates)), Tail(aggregates))

\* _execute_having_query: (result_df, output_table)
_execute_having_query(df, condition, result_table_name, aggregates) ==
    LET fixed_condition == ReplaceAggs(_strip_table_aliases(condition), aggregates)
        having_sql == SelectStarFrom(TABLE_INPUT) \o <<SP, Kw("WHERE"), SP>> \o fixed_condition IN
    Ran(con_execute((TABLE_INPUT :> df), having_sql), result_table_name, having_sql)

\* _execute_having_step
_execute_having_step(step_def, cur) ==
    LET Done(q) ==
            [rec |-> StepRecord(step_def.step_number, STEP_HAVING,
                                <<_dataframe_to_table_dict(cur.df, InputName(cur))>>,
                                q.output_table, "",
                                <<"Filtering groups HAVING">> \o TokenValues(step_def.condition)),
             df |-> q.df, name |-> TABLE_FILTERED_GROUPS, log |-> q.log]
    IN  IF cur.df = None THEN _create_error_step(STEP_HAVING, step_def.step_number, "no input")
        ELSE Done(_execute_having_query(cur.df[1], step_def.condition, TABLE_FILTERED_GROUPS,
                                        step_def.aggregates))

\* current_df[select_cols]: the named columns in the order named
Project(df, select_cols) ==
    LET idx == [n \in 1..Len(select_cols) |->
                   CHOOSE m \in 1..Len(df.cols) : df.cols[m] = select_cols[n]] IN
    [cols |-> select_cols,
     rows |-> [r \in 1..Len(df.rows) |-> [n \in 1..Len(idx) |-> df.rows[r][idx[n]]]]]

\* _execute_select_step
_execute_select_step(step_def, cur) ==
    LET input_table == _dataframe_to_table_dict(cur.df, InputName(cur))
        select_cols == step_def.columns
        known == \A n \in 1..Len(select_cols) :
                     \E m \in 1..Len(cur.df[1].cols) : cur.df[1].cols[m] = select_cols[n]
        result_df == IF select_cols # <<>> /\ known THEN Some(Project(cur.df[1], select_cols))
                     ELSE cur.df
        output_table == IF select_cols # <<>> /\ known
                        THEN _dataframe_to_table_dict(result_df, "projected_result")
                        ELSE input_table IN
    IF cur.df = None THEN _create_error_step(STEP_SELECT, step_def.step_number, "no input")
    ELSE [rec |-> StepRecord(step_def.step_number, STEP_SELECT, <<input_table>>,
                             Some(output_table), "",
                             <<"Selecting columns">>
                             \o (IF select_cols # <<>> THEN select_cols ELSE <<"ALL">>)),
          df |-> result_df, name |-> TABLE_PROJECTED_RESULT, log |-> <<>>]

\* _execute_order_by_query: (result_df, output_table); the input passes
\* through when the query fails
_execute_order_by_query(df, order_cols, fallback_table) ==
    LET order_by_sql == SelectStarFrom(TABLE_INPUT) \o <<SP, Kw("ORDER BY"), SP>>
                        \o CommaList(order_cols)
        Sorted(r) == IF r.ok THEN Ran(r, TABLE_SORTED_RESULT, order_by_sql)
                     ELSE [df |-> Some(df), output_table |-> Some(fallback_table),
                           log |-> _db_connection(<<order_by_sql>>, <<TRUE>>)]
    IN  Sorted(con_execute((TABLE_INPUT :> df), order_by_sql))

\* _execute_order_by_step
_execute_order_by_step(step_def, cur) ==
    LET input_table == _dataframe_to_table_dict(cur.df, InputName(cur))
        Done(q) ==
            [rec |-> StepRecord(step_def.step_number, STEP_ORDER_BY, <<input_table>>,
                                q.output_table, "", <<"Sorting by">> \o step_def.columns),
             df |-> q.df, name |-> TABLE_SORTED_RESULT, log |-> q.log]
    IN  IF cur.df = None
        THEN _create_error_step(STEP_ORDER_BY, step_def.step_number, "no input")
        ELSE Done(_execute_order_by_query(cur.df[1], step_def.columns, input_table))

\* pd.concat([left, right], ignore_index=True): the columns of both by name
\* (the left ones first), a value a side lacks is NaN
PdConcat(l, r) ==
    LET Concat(cols) ==
            LET from(rel, row) ==
                    [n \in 1..Len(cols) |->
                        IF \E m \in 1..Len(rel.cols) : rel.cols[m] = cols[n]
                        THEN row[CHOOSE m \in 1..Len(rel.cols) : rel.cols[m] = cols[n]]
                        ELSE Null]
            IN  [cols |-> cols,
                 rows |-> [n \in 1..Len(l.rows) |-> from(l, l.rows[n])]
                          \o [n \in 1..Len(r.rows) |-> from(r, r.rows[n])]]
    IN  Concat(l.cols \o SelectSeq(r.cols, LAMBDA c : \A n \in 1..Len(l.cols) : l.cols[n] # c))

\* DataFrame.drop_duplicates()
DropDuplicates(df) == [cols |-> df.cols, rows |-> DistinctSeq(df.rows)]

\* _execute_union_step; l and r are the step's _left_df and _right_df
_execute_union_step(step_def, l, r, store) ==
    LET tbls == _get_tables_as_dataframes(store)
        direct == l = None \/ r = None
        Done(union_df, left_rel, right_rel) ==
            [rec |-> StepRecord(step_def.step_number, STEP_UNION,
                                <<_dataframe_to_table_dict(Some(left_rel), "left_result"),
                                  _dataframe_to_table_dict(Some(right_rel), "right_result")>>,
                                Some(_dataframe_to_table_dict(Some(union_df), "union_result")),
                                "",
                                <<"UNION - combining results from both SELECT statements">>),
             df |-> Some(union_df), name |-> "union_result", log |-> <<>>]
        Combine(left_rel, right_rel) ==
            Done(DropDuplicates(PdConcat(left_rel, right_rel)), left_rel, right_rel)
        \* the two subqueries run on one connection
        Logged(result, sqls, ran) ==
            [result EXCEPT !.log = _db_connection(sqls, <<~ran[1].ok, ~ran[2].ok>>)]
        Direct(sqls, ran) ==
            Logged(IF ~ran[1].ok \/ ~ran[2].ok
                   THEN _create_error_step(STEP_UNION, step_def.step_number,
                                           "error executing UNION subqueries")
                   ELSE Combine(ran[1].df, ran[2].df),
                   sqls, ran)
    IN  IF direct /\ (step_def.left_query = <<>> \/ step_def.right_query = <<>>)
        THEN _create_error_step(STEP_UNION, step_def.step_number, "missing UNION subqueries")
        ELSE IF direct /\ DOMAIN tbls = {}
        THEN _create_error_step(STEP_UNION, step_def.step_number, "no tables available")
        ELSE IF direct
        THEN Direct(<<step_def.left_query, step_def.right_query>>,
                    [n \in 1..2 |->
                        con_execute(tbls, <<step_def.left_query, step_def.right_query>>[n])])
        ELSE Combine(l[1], r[1])

\* _execute_step; l and r are what a Union step definition carries as
\* _left_df and _right_df
_execute_step(step_def, cur, tbls, l, r, store) ==
    CASE step_def.step_type = STEP_FROM -> _execute_from_step(step_def, tbls)
      [] step_def.step_type = STEP_JOIN -> _execute_join_step(step_def, cur, tbls)
      [] step_def.step_type = STEP_WHERE -> _execute_where_step(step_def, cur)
      [] step_def.step_type = STEP_GROUP_BY -> _execute_group_by_step(step_def, cur)
      [] step_def.step_type = STEP_HAVING -> _execute_having_step(step_def, cur)
      [] step_def.step_type = STEP_SELECT -> _execute_select_step(step_def, cur)
      [] step_def.step_type = STEP_ORDER_BY -> _execute_order_by_step(step_def, cur)
      [] step_def.step_type = STEP_UNION -> _execute_union_step(step_def, l, r, store)
      [] OTHER -> _create_error_step(step_def.step_type, step_def.step_number,
                                     "unknown step type")

----------------------------------------------------------------------------
(* The tables a client can upload and the query texts it can submit *)

Catalogue ==
    [emp  |-> [cols |-> <<"eid", "dno">>, rows |-> << <<1, 1>>, <<2, 1>>, <<3, 2>> >>],
     dept |-> [cols |-> <<"dno", "loc">>, rows |-> << <<1, PosInf>>, <<3, NegInf>> >>],
     proj |-> [cols |-> <<"pno", "dno">>, rows |-> << <<1, 1>>, <<2, 1>> >>]]
EmptyStore == [t \in {} |-> <<>>]

Styles == {"plain", "newline", "wide"}
Sep(style) == CASE style = "newline" -> <<NL>> [] style = "wide" -> <<SP, SP>> [] OTHER -> <<SP>>
\* a compound keyword as the lexer yields it: one token, its blanks kept
Compound(w, style) ==
    IF style # "wide" THEN Kw(w)
    ELSE CASE w = "LEFT JOIN" -> Kw("LEFT  JOIN") [] w = "GROUP BY" -> Kw("GROUP  BY")
           [] w = "ORDER BY" -> Kw("ORDER  BY") [] OTHER -> Kw(w)

RightTables == <<"dept", "proj", "emp">>
RightAliases == <<"d", "p", "q">>
Qualifier(n, aliased) ==
    IF n = 0 THEN IF aliased THEN "e" ELSE "emp"
    ELSE IF aliased THEN RightAliases[((n - 1) % 3) + 1] ELSE RightTables[((n - 1) % 3) + 1]

\* the n-th JOIN clause of a chain emp - dept - proj - ... on dno
JoinClause(n, kind, aliased, style) ==
    <<Compound(kind, style), SP, Nm(RightTables[((n - 1) % 3) + 1])>>
    \o (IF aliased THEN <<SP, Nm(Qualifier(n, TRUE))>> ELSE <<>>)
    \o <<SP, Kw("ON"), SP, Nm(Qualifier(n - 1, aliased)), Pu("."), Nm("dno"), SP, Cmp("="),
         SP, Nm(Qualifier(n, aliased)), Pu("."), Nm("dno")>>

RECURSIVE JoinClauses(_, _, _, _, _)
JoinClauses(n, upto, kind, aliased, style) ==
    IF n > upto THEN <<>>
    ELSE Sep(style) \o JoinClause(n, kind, aliased, style)
         \o JoinClauses(n + 1, upto, kind, aliased, style)

\* SELECT <sel> FROM emp [e] [joins] [WHERE ..] [GROUP BY dno [HAVING ..]]
\* [ORDER BY ..]
SelectQuery(sel, aliased, joins, kind, where, grp, order, style) ==
    <<Dml("SELECT"), SP>>
    \o (IF grp # "none" THEN <<Nm("dno"), Pu(","), SP, Nm("COUNT"), Pu("("), Nm("eid"), Pu(")")>>
        ELSE IF sel = "star" THEN <<Wild>> ELSE <<Nm("eid")>>)
    \o Sep(style) \o <<Kw("FROM"), SP, Nm("emp")>>
    \o (IF aliased THEN <<SP, Nm("e")>> ELSE <<>>)
    \o JoinClauses(1, joins, kind, aliased, style)
    \o (IF where = "none" THEN <<>>
        ELSE Sep(style) \o <<Kw("WHERE"), SP, Nm(IF where = "bad" THEN "nosuch" ELSE "eid"),
                             SP, Cmp(">"), SP, Num("1")>>)
    \o (IF grp = "none" THEN <<>> ELSE Sep(style) \o <<Compound("GROUP BY", style), SP, Nm("dno")>>)
    \o (IF grp # "having" THEN <<>>
        ELSE Sep(style) \o <<Kw("HAVING"), SP, Nm("COUNT"), Pu("("), Nm("eid"), Pu(")"), SP,
                             Cmp(">"), SP, Num("1")>>)
    \o (IF ~order THEN <<>>
        ELSE Sep(style) \o <<Compound("ORDER BY", style), SP,
                             Nm(IF grp # "none" THEN "dno" ELSE "eid"), SP, Kw("DESC")>>)

\* the single SELECT statements: every join chain without further clauses,
\* and every combination of further clauses on emp alone and on one join
SelectQueries ==
    {SelectQuery(sel, aliased, joins, kind, "none", "none", FALSE, style) :
        sel \in {"star", "col"}, aliased \in BOOLEAN, joins \in 0..MaxJoins,
        kind \in {"JOIN", "LEFT JOIN"}, style \in Styles}
    \cup
    {SelectQuery("star", joins = 1, joins, "JOIN", where, grp, order, style) :
        joins \in 0..1, where \in {"none", "good", "bad"},
        grp \in {"none", "group", "having"}, order \in BOOLEAN, style \in Styles}

\* FUNC(col) and FUNC(DISTINCT col) as sqlparse splits them
AggCall(func, col, distinct) ==
    <<Nm(func), Pu("(")>> \o (IF distinct THEN <<Kw("DISTINCT"), SP>> ELSE <<>>)
    \o <<Nm(col), Pu(")")>>

\* <call> > 0 AND <call> > 0 ...
RECURSIVE HavingCondition(_)
HavingCondition(calls) ==
    IF calls = <<>> THEN <<>>
    ELSE Head(calls) \o <<SP, Cmp(">"), SP, Num("0")>>
         \o (IF Len(calls) > 1 THEN <<SP, Kw("AND"), SP>> ELSE <<>>)
         \o HavingCondition(Tail(calls))

\* SELECT dno, COUNT(eid) FROM emp GROUP BY dno HAVING <calls>
HavingQuery(calls) ==
    <<Dml("SELECT"), SP, Nm("dno"), Pu(","), SP>> \o AggCall("COUNT", "eid", FALSE)
    \o <<SP, Kw("FROM"), SP, Nm("emp"), SP, Kw("GROUP BY"), SP, Nm("dno"), SP, Kw("HAVING"), SP>>
    \o HavingCondition(calls)

\* HAVING conditions with several aggregate calls: one call twice, with and
\* without DISTINCT; two functions of one column
HavingQueries ==
    { HavingQuery(<<AggCall("COUNT", "eid", FALSE), AggCall("COUNT", "eid", TRUE)>>),
      HavingQuery(<<AggCall("COUNT", "eid", TRUE), AggCall("COUNT", "eid", FALSE),
                    AggCall("COUNT", "eid", FALSE)>>),
      HavingQuery(<<AggCall("MAX", "eid", FALSE), AggCall("MIN", "eid", FALSE)>>) }
\* a column written with a capital letter
CapitalQuery == HavingQuery(<<AggCall("COUNT", "Eid", FALSE)>>)

\* the arms of the UNION statements
Arms ==
    << <<Dml("SELECT"), SP, Wild, SP, Kw("FROM"), SP, Nm("emp")>>,
       <<Dml("SELECT"), SP, Wild, SP, Kw("FROM"), SP, Nm("emp"), SP, Kw("WHERE"), SP,
         Nm("eid"), SP, Cmp("="), SP, Num("1")>>,
       <<Dml("SELECT"), SP, Wild, SP, Kw("FROM"), SP, Nm("dept")>>,
       <<Dml("SELECT"), SP, Nm("eid"), SP, Kw("FROM"), SP, Nm("emp")>>,
       <<Dml("SELECT"), SP, Nm("dno"), SP, Kw("FROM"), SP, Nm("dept")>>,
       SelectQuery("star", TRUE, 1, "JOIN", "none", "none", FALSE, "plain"),
       <<Dml("SELECT"), SP, Nm("e"), Pu("."), Nm("eid"), Pu(","), SP, Nm("e"), Pu("."),
         Nm("dno"), SP, Kw("FROM"), SP, Nm("emp"), SP, Nm("e")>>
       \o JoinClauses(1, 1, "JOIN", TRUE, "plain") >>
\* the arms a UNION of more than two arms draws from
ManyArms == 2

RECURSIVE UnionText(_, _)
UnionText(arms, style) ==
    IF Len(arms) = 1 THEN arms[1]
    ELSE arms[1] \o Sep(style) \o <<Kw("UNION")>> \o Sep(style) \o UnionText(Tail(arms), style)

\* one top-level UNION between two SELECT statements
TwoArmUnions ==
    {UnionText(<<Arms[a], Arms[b]>>, style) :
        a \in 1..Len(Arms), b \in 1..Len(Arms), style \in {"plain", "newline"}}
\* more than one top-level UNION: three arms and more
ManyArmUnions ==
    UNION {{UnionText([i \in 1..n |-> Arms[f[i]]], "plain") : f \in [1..n -> 1..ManyArms]} :
              n \in 3..MaxArms}
\* a UNION whose tail is no SELECT
BadTailUnions ==
    { Arms[1] \o <<SP, Kw("UNION"), SP, Kw("VALUES"), SP, Pu("("), Num("1"), Pu(","), SP,
                   Num("1"), Pu(")")>> }

UnionQueries == TwoArmUnions \cup ManyArmUnions \cup BadTailUnions

\* texts without a statement
EmptyTexts == { <<>>, <<SP>>, <<Pu(";")>> }
\* statements that are no SELECT
NonSelectTexts ==
    { <<Kw("SHOW"), SP, Kw("TABLES")>>,
      <<Tok("DDL", "DROP"), SP, Kw("TABLE"), SP, Nm("emp")>>,
      <<Dml("DELETE"), SP, Kw("FROM"), SP, Nm("emp")>> }

\* other texts: a UNION ALL, a closing semicolon, two statements
OtherQueries ==
    EmptyTexts \cup NonSelectTexts \cup
    { Arms[1] \o <<SP, Kw("UNION ALL"), SP>> \o Arms[2],
      Arms[1] \o <<Pu(";")>>,
      Arms[1] \o <<Pu(";"), SP>> \o Arms[3] }

\* a UNION of an arm with GROUP BY and no HAVING and an arm with HAVING and
\* no GROUP BY
GroupArm ==
    <<Dml("SELECT"), SP, Nm("dno"), SP, Kw("FROM"), SP, Nm("emp"), SP, Kw("GROUP BY"), SP,
      Nm("dno")>>
HavingArm ==
    <<Dml("SELECT"), SP>> \o AggCall("COUNT", "eid", FALSE)
    \o <<SP, Kw("FROM"), SP, Nm("emp"), SP, Kw("HAVING"), SP>>
    \o HavingCondition(<<AggCall("COUNT", "eid", FALSE)>>)
GroupHavingUnion == UnionText(<<GroupArm, HavingArm>>, "plain")

Queries ==
    SelectQueries \cup UnionQueries \cup OtherQueries \cup HavingQueries \cup {GroupHavingUnion}

----------------------------------------------------------------------------
(* The requests *)

NoResponse == [status |-> "none", keys |-> {}, steps |-> <<>>,
               columns |-> <<>>, rows |-> <<>>, detail |-> ""]
\* HTTPException(status_code=400, detail=...)
ErrorResponse(detail) == [NoResponse EXCEPT !.status = "error", !.keys = {"detail"},
                                            !.detail = detail]
\* the body of execute_query's result
FinalResponse(r) == [NoResponse EXCEPT !.status = "ok",
                                       !.keys = {"columns", "rows", "row_count"},
                                       !.columns = r.columns, !.rows = r.rows]
\* {"steps": cleaned_steps, "final_result": cleaned_final_result}
StepsResponse(records, r) ==
    [NoResponse EXCEPT !.status = "ok",
                       !.keys = {"steps", "final_result"},
                       !.steps = [n \in 1..Len(records) |-> _clean_for_json_step(records[n])],
                       !.columns = r.columns, !.rows = _clean_for_json(r.rows)]

\* normalized_query of execute_query_steps
NormalizedQuery(text) ==
    LET Normalized(t) ==
            IF t # <<>> /\ t[Len(t)] = Pu(";") THEN Strip(SubSeq(t, 1, Len(t) - 1)) ELSE t
    IN  Normalized(Strip(text))

\* the UNION path's view of the compiled steps
has_union(defs) ==
    \E n \in 1..Len(defs) : defs[n].union_side # "" \/ defs[n].step_type = STEP_UNION
left_steps(defs) == SelectSeq(defs, LAMBDA s : s.union_side = "left")
right_steps(defs) == SelectSeq(defs, LAMBDA s : s.union_side = "right")
HasUnionStep(defs) == \E n \in 1..Len(defs) : defs[n].step_type = STEP_UNION
union_step(defs) ==
    defs[CHOOSE n \in 1..Len(defs) :
            /\ defs[n].step_type = STEP_UNION
            /\ \A m \in 1..(n - 1) : defs[m].step_type # STEP_UNION]

\* where the UNION path goes on once the left loop stands at index i
AfterLeft(defs, i) ==
    IF i <= Len(left_steps(defs)) THEN "left"
    ELSE IF right_steps(defs) # <<>> THEN "right"
    ELSE IF HasUnionStep(defs) THEN "union" ELSE "final"
AfterRight(defs, i) ==
    IF i <= Len(right_steps(defs)) THEN "right"
    ELSE IF HasUnionStep(defs) THEN "union" ELSE "final"

\* SQLQueryParser(): self.steps = []; nothing compiled yet
NoParser ==
    [steps |-> <<>>, first |-> [t \in {} |-> <<>>],
     last |-> [text |-> <<>>, steps |-> <<>>, again |-> FALSE, reused |-> FALSE]]

\* a call of the running request and what it did to DuckDB connections
Call(method, log) == [by |-> method, log |-> log]

Init ==
    /\ table_rows = EmptyStore
    /\ query_text = <<>>
    /\ mode = ""
    /\ pc = "idle"
    /\ step_definitions = <<>>
    /\ tables = EmptyStore
    /\ steps = <<>>
    /\ current_df = NoCurrent
    /\ left_df = NoCurrent
    /\ right_df = NoCurrent
    /\ k = 1
    /\ response = NoResponse
    /\ evaluator = <<>>
    /\ parser = NoParser

\* main.upload_csv: graph_builder.add_table(table_name, 'csv', columns, rows)
upload_csv(t) ==
    /\ UNCHANGED parser
    /\ pc = "idle"
    /\ table_rows' = (t :> Catalogue[t]) @@ table_rows
    /\ UNCHANGED <<query_text, mode, pc, step_definitions, tables, steps, current_df,
                   left_df, right_df, k, response, evaluator>>

\* main.clear_graph: graph_builder.clear()
clear_graph ==
    /\ UNCHANGED parser
    /\ pc = "idle"
    /\ table_rows' = EmptyStore
    /\ UNCHANGED <<query_text, mode, pc, step_definitions, tables, steps, current_df,
                   left_df, right_df, k, response, evaluator>>

\* main.compile_query, in steps mode up to the first step of
\* execute_query_steps (lines 1347-1405)
compile_query(q, m) ==
    /\ UNCHANGED parser
    /\ pc = "idle"
    /\ query_text' = q
    /\ mode' = m
    /\ steps' = <<>>
    /\ current_df' = NoCurrent
    /\ left_df' = NoCurrent
    /\ right_df' = NoCurrent
    /\ k' = 1
    /\ UNCHANGED table_rows
    /\ LET answered(resp, calls) ==
               /\ response' = resp
               /\ pc' = "done"
               /\ step_definitions' = <<>>
               /\ tables' = EmptyStore
               /\ evaluator' = calls
           tbls == _get_tables_as_dataframes(table_rows)
           Request(whole, parsed) ==
               IF q = <<>> THEN answered(ErrorResponse("Query text is required"), <<>>)
               ELSE IF m # "steps"
                    THEN answered(IF whole.ok THEN FinalResponse(whole)
                                  ELSE ErrorResponse(whole.error),
                                  <<Call("execute_query", whole.log)>>)
               ELSE IF Strip(q) = <<>>
                    THEN answered(ErrorResponse("Query text must be a non-empty string"), <<>>)
               ELSE IF parsed.raised \/ parsed.steps = <<>>
                    THEN answered(IF whole.ok THEN StepsResponse(<<>>, whole)
                                  ELSE ErrorResponse(whole.error),
                                  <<Call("execute_query", whole.log)>>)
               ELSE IF DOMAIN tbls = {}
                    THEN answered(ErrorResponse("No tables available. Please upload data first."),
                                  <<>>)
               ELSE /\ response' = NoResponse
                    /\ evaluator' = <<>>
                    /\ step_definitions' = parsed.steps
                    /\ tables' = tbls
                    /\ pc' = IF has_union(parsed.steps) THEN AfterLeft(parsed.steps, 1)
                             ELSE "steps"
       IN  Request(execute_query(table_rows, q), parse(NormalizedQuery(q)))

\* one turn of the loop of the normal path (lines 1472-1484)
ExecuteStep ==
    /\ UNCHANGED parser
    /\ pc = "steps"
    /\ LET Record(step_result) ==
               /\ steps' = Append(steps, step_result.rec)
               /\ evaluator' = Append(evaluator, Call("_execute_step", step_result.log))
               /\ current_df' = _update_step_state(step_result, current_df)
       IN  Record(_execute_step(step_definitions[k], current_df, tables, None, None,
                                table_rows))
    /\ k' = k + 1
    /\ pc' = IF k < Len(step_definitions) THEN "steps" ELSE "final"
    /\ UNCHANGED <<table_rows, query_text, mode, step_definitions, tables, left_df,
                   right_df, response>>

\* one turn of the loop over the left arm's steps (lines 1420-1432)
ExecuteLeftStep ==
    /\ UNCHANGED parser
    /\ pc = "left"
    /\ LET Record(step_result) ==
               /\ steps' = Append(steps, step_result.rec)
               /\ evaluator' = Append(evaluator, Call("_execute_step", step_result.log))
               /\ left_df' = _update_step_state(step_result, left_df)
       IN  Record(_execute_step(left_steps(step_definitions)[k], left_df, tables, None, None,
                                table_rows))
    /\ pc' = AfterLeft(step_definitions, k + 1)
    /\ k' = IF pc' = "left" THEN k + 1 ELSE 1
    /\ UNCHANGED <<table_rows, query_text, mode, step_definitions, tables, current_df,
                   right_df, response>>

\* a variant of ExecuteRightStep: the right arm's first step is handed the
\* relation the left arm has left
ExecuteRightStepOnLeft ==
    /\ UNCHANGED parser
    /\ pc = "right"
    /\ LET handed == IF k = 1 THEN left_df ELSE right_df
           Record(step_result) ==
               /\ steps' = Append(steps, step_result.rec)
               /\ evaluator' = Append(evaluator, Call("_execute_step", step_result.log))
               /\ right_df' = _update_step_state(step_result, handed)
       IN  Record(_execute_step(right_steps(step_definitions)[k], handed, tables, None,
                                None, table_rows))
    /\ pc' = AfterRight(step_definitions, k + 1)
    /\ k' = IF pc' = "right" THEN k + 1 ELSE 1
    /\ UNCHANGED <<table_rows, query_text, mode, step_definitions, tables, current_df,
                   left_df, response>>
\* one turn of the loop over the right arm's steps (lines 1435-1447)
ExecuteRightStep ==
    /\ UNCHANGED parser
    /\ pc = "right"
    /\ LET Record(step_result) ==
               /\ steps' = Append(steps, step_result.rec)
               /\ evaluator' = Append(evaluator, Call("_execute_step", step_result.log))
               /\ right_df' = _update_step_state(step_result, right_df)
       IN  Record(_execute_step(right_steps(step_definitions)[k], right_df, tables, None,
                                None, table_rows))
    /\ pc' = AfterRight(step_definitions, k + 1)
    /\ k' = IF pc' = "right" THEN k + 1 ELSE 1
    /\ UNCHANGED <<table_rows, query_text, mode, step_definitions, tables, current_df,
                   left_df, response>>

\* the Union step, handed both arms' relations (lines 1450-1465)
ExecuteUnionStep ==
    /\ UNCHANGED parser
    /\ pc = "union"
    /\ LET Record(step_result) ==
               /\ steps' = Append(steps, step_result.rec)
               /\ evaluator' = Append(evaluator, Call("_execute_step", step_result.log))
               /\ current_df' = _update_step_state(step_result, NoCurrent)
       IN  Record(_execute_step(union_step(step_definitions), NoCurrent, tables,
                                left_df.df, right_df.df, table_rows))
    /\ pc' = "final"
    /\ UNCHANGED <<table_rows, query_text, mode, step_definitions, tables, left_df,
                   right_df, k, response>>

\* a variant of FinalResult: the statement works on the store's own rows
\* and leaves the store without them
FinalResultOnStore ==
    /\ UNCHANGED parser
    /\ pc = "final"
    /\ pc' = "done"
    /\ table_rows' = EmptyStore
    /\ response' = ErrorResponse("Error executing query")
    /\ UNCHANGED <<query_text, mode, step_definitions, tables, steps, current_df, left_df,
                   right_df, k, evaluator>>
\* the final result and the response of execute_query_steps (lines 1489-1520)
FinalResult ==
    /\ UNCHANGED parser
    /\ pc = "final"
    /\ LET Respond(final_result) ==
               LET final_step == StepRecord(Len(steps) + 1, STEP_FINAL_RESULT, <<>>,
                                            Some([name |-> "Final Result",
                                                  columns |-> final_result.columns,
                                                  data |-> final_result.rows,
                                                  row_count |-> Len(final_result.rows)]), "",
                                            <<"Final Result", ToString(Len(final_result.rows)),
                                              "rows">>)
               IN  /\ response' = IF final_result.ok
                                  THEN StepsResponse(Append(steps, final_step), final_result)
                                  ELSE ErrorResponse("Error executing query")
                   /\ evaluator' = Append(evaluator, Call("execute_query", final_result.log))
       IN  Respond(execute_query(table_rows, query_text))
    /\ pc' = "done"
    /\ UNCHANGED <<table_rows, query_text, mode, step_definitions, tables, steps,
                   current_df, left_df, right_df, k>>

\* the response is sent; the request's state is gone
Return ==
    /\ UNCHANGED parser
    /\ pc = "done"
    /\ pc' = "idle"
    /\ query_text' = <<>>
    /\ mode' = ""
    /\ step_definitions' = <<>>
    /\ tables' = EmptyStore
    /\ steps' = <<>>
    /\ current_df' = NoCurrent
    /\ left_df' = NoCurrent
    /\ right_df' = NoCurrent
    /\ k' = 1
    /\ response' = NoResponse
    /\ evaluator' = <<>>
    /\ UNCHANGED table_rows

Next ==
    \/ \E t \in DOMAIN Catalogue : upload_csv(t)
    \/ clear_graph
    \/ \E q \in Queries, m \in {"final", "steps"} : compile_query(q, m)
    \/ ExecuteStep
    \/ ExecuteLeftStep
    \/ ExecuteRightStep
    \/ ExecuteUnionStep
    \/ FinalResult
    \/ Return

Spec == Init /\ [][Next]_vars

\* The same requests with data loading under way beside a submission: a
\* loader that calls graph_builder.clear() and graph_builder.add_table()
\* between two steps of execute_query_steps.
InterleavedQueries ==
    { SelectQuery("star", FALSE, 1, "LEFT JOIN", "none", "none", FALSE, "plain"),
      SelectQuery("star", FALSE, 0, "JOIN", "good", "none", TRUE, "plain"),
      UnionText(<<Arms[1], Arms[3]>>, "plain"),
      UnionText(<<Arms[1], Arms[2]>>, "plain") }

\* graph_builder.clear() while a submission runs
ClearDuringQuery ==
    /\ UNCHANGED parser
    /\ pc \notin {"idle", "done"}
    /\ table_rows # EmptyStore
    /\ table_rows' = EmptyStore
    /\ UNCHANGED <<query_text, mode, pc, step_definitions, tables, steps, current_df,
                   left_df, right_df, k, response, evaluator>>

\* graph_builder.add_table(...) while a submission runs
AddTableDuringQuery(t) ==
    /\ UNCHANGED parser
    /\ pc \notin {"idle", "done"}
    /\ t \notin DOMAIN table_rows
    /\ table_rows' = (t :> Catalogue[t]) @@ table_rows
    /\ UNCHANGED <<query_text, mode, pc, step_definitions, tables, steps, current_df,
                   left_df, right_df, k, response, evaluator>>

NextInterleaved ==
    \/ \E t \in DOMAIN Catalogue : upload_csv(t)
    \/ clear_graph
    \/ \E q \in InterleavedQueries : compile_query(q, "steps")
    \/ ExecuteStep
    \/ ExecuteLeftStep
    \/ ExecuteRightStep
    \/ ExecuteUnionStep
    \/ FinalResult
    \/ Return
    \/ ClearDuringQuery
    \/ \E t \in DOMAIN Catalogue : AddTableDuringQuery(t)

SpecInterleaved == Init /\ [][NextInterleaved]_vars

\* A caller of the step compiler alone: it compiles texts one after the
\* other, on the parser it holds or on a new one.
ParserTexts ==
    { SelectQuery("col", FALSE, 0, "JOIN", "none", "none", FALSE, "plain"),
      SelectQuery("star", TRUE, 2, "LEFT JOIN", "none", "none", FALSE, "newline"),
      UnionText(<<Arms[1], Arms[1], Arms[2]>>, "plain") }
    \cup HavingQueries \cup {CapitalQuery}

\* parser = SQLQueryParser()
NewParser ==
    /\ parser.steps # <<>>
    /\ parser' = [parser EXCEPT !.steps = <<>>]
    /\ UNCHANGED <<table_rows, query_text, mode, pc, step_definitions, tables, steps,
                   current_df, left_df, right_df, k, response, evaluator>>

\* parser.parse(text); the parser keeps, for every text, what its first
\* compilation returned, and what the latest call returned
ParserParse(text) ==
    /\ LET Returned(r) ==
               parser' = [steps |-> r.steps,
                          first |-> IF text \in DOMAIN parser.first THEN parser.first
                                    ELSE (text :> r.steps) @@ parser.first,
                          last |-> [text |-> text, steps |-> r.steps,
                                    again |-> text \in DOMAIN parser.first,
                                    reused |-> parser.steps # <<>>]]
       IN  Returned(parse_on(parser.steps, text))
    /\ UNCHANGED <<table_rows, query_text, mode, pc, step_definitions, tables, steps,
                   current_df, left_df, right_df, k, response, evaluator>>

NextParser ==
    \/ NewParser
    \/ \E text \in ParserTexts : ParserParse(text)

SpecParser == Init /\ [][NextParser]_vars

\* A caller of the entry points kept from the earlier interface:
\* compile_query of the visualizer, then the state of the final step.

\* QueryVisualizer.get_visual_state: it raises RuntimeError whatever it is given
get_visual_state(query_id, line_index) ==
    [raised |-> TRUE,
     message |-> "Step-by-step visual query states have been removed; call execute_query instead.",
     state |-> None]

\* QueryVisualizer.compile_query: {"query_id": ..., "result": ...}, or the
\* ValueError of execute_query
QueryVisualizer_compile_query(text) ==
    /\ UNCHANGED parser
    /\ pc = "idle"
    /\ query_text' = text
    /\ mode' = "compile"
    /\ LET Returned(result) ==
               IF result.ok
               THEN /\ response' = [NoResponse EXCEPT !.status = "ok",
                                                      !.keys = {"query_id", "result"},
                                                      !.columns = result.columns,
                                                      !.rows = result.rows]
                    /\ pc' = "compiled"
               ELSE /\ response' = ErrorResponse(result.error)
                    /\ pc' = "done"
       IN  Returned(execute_query(table_rows, text))
    /\ UNCHANGED <<table_rows, step_definitions, tables, steps, current_df, left_df,
                   right_df, k, evaluator>>

\* main.get_query_state for the query compiled: the state of its final step
get_query_state ==
    /\ UNCHANGED parser
    /\ pc = "compiled"
    /\ mode' = "state"
    /\ LET Answered(got) ==
               IF got.raised
               THEN response' = ErrorResponse("Error getting visual state: " \o got.message)
               ELSE response' = [NoResponse EXCEPT !.status = "ok",
                                                   !.keys = {"input_tables", "output_table"},
                                                   !.columns = got.state[1].columns,
                                                   !.rows = got.state[1].data]
       IN  Answered(get_visual_state("query", 0))
    /\ pc' = "done"
    /\ UNCHANGED <<table_rows, query_text, step_definitions, tables, steps, current_df,
                   left_df, right_df, k, evaluator>>

NextLegacy ==
    \/ \E t \in DOMAIN Catalogue : upload_csv(t)
    \/ clear_graph
    \/ \E q \in Queries : QueryVisualizer_compile_query(q)
    \/ get_query_state
    \/ Return

SpecLegacy == Init /\ [][NextLegacy]_vars

\* A caller of the step executor alone: the loop of execute_query_steps
\* (lines 1470-1484) run on step definitions handed to it, from a current
\* relation handed to it.

\* a step definition of a type with the keys given
StepOf(step_type, step_number, data) ==
    [data EXCEPT !.step_type = step_type, !.step_number = step_number]
SelectOf(n, cols) == StepOf(STEP_SELECT, n, [StepBase EXCEPT !.columns = cols])
OrderByOf(n, cols) == StepOf(STEP_ORDER_BY, n, [StepBase EXCEPT !.columns = cols])

\* the condition <lq>.<lc> = <rq>.<rc> of a JOIN clause
OnEqual(lq, lc, rq, rc) ==
    <<Nm(lq), Pu("."), Nm(lc), SP, Cmp("="), SP, Nm(rq), Pu("."), Nm(rc)>>
\* the Join step of FROM <left> <kind> JOIN <right> ON <cond>, as parse
\* builds it (lines 179-192), no alias given
JoinOf(n, kind, left, right, cond) ==
    StepOf(STEP_JOIN, n,
           [StepBase EXCEPT !.join_type = kind, !.left_table = left,
                            !.from_tables = IF left = "" THEN <<>> ELSE <<left>>,
                            !.right_table = right, !.condition = cond])

\* the output of emp JOIN dept ON emp.dno = dept.dno, as a current relation
JoinedRelation ==
    [cols |-> <<"eid", "dno", "dno_1", "loc">>,
     rows |-> << <<1, 1, 1, PosInf>>, <<2, 1, 1, PosInf>> >>]

\* the output of emp JOIN dept ON emp.eid < dept.dno
UnequalJoinedRelation ==
    [cols |-> <<"eid", "dno", "dno_1", "loc">>,
     rows |-> << <<1, 1, 3, NegInf>>, <<2, 1, 3, NegInf>> >>]

DrawnRelations ==
    { NoCurrent,
      [df |-> Some(Catalogue["emp"]), name |-> "emp"],
      [df |-> Some(JoinedRelation), name |-> TABLE_JOINED_RESULT],
      [df |-> Some(UnequalJoinedRelation), name |-> TABLE_JOINED_RESULT] }

\* Join steps: a condition the evaluator accepts, conditions naming a column
\* no table has, and a condition through the alias of an earlier join
DrawnJoins ==
    { <<JoinOf(1, "LEFT", "emp", "dept", OnEqual("emp", "dno", "dept", "dno"))>>,
      <<JoinOf(1, "INNER", "emp", "dept", OnEqual("emp", "nosuch", "dept", "dno"))>>,
      <<JoinOf(1, "LEFT", "emp", "dept", OnEqual("emp", "nosuch", "dept", "dno")),
        SelectOf(2, <<"eid">>)>>,
      <<JoinOf(1, "INNER", "emp", "proj", OnEqual("d", "dno", "proj", "dno"))>>,
      <<JoinOf(1, "INNER", "emp", "proj", OnEqual("d", "loc", "proj", "pno"))>>,
      <<JoinOf(1, "INNER", "emp", "proj", OnEqual("d", "Eid", "proj", "pno"))>>,
      <<JoinOf(1, "INNER", "nosuch", "dept", OnEqual("nosuch", "dno", "dept", "dno"))>> }

\* Select steps naming known and unknown columns, OrderBy steps naming known
\* and unknown columns, alone and before a further step
DrawnPipelines ==
    { <<SelectOf(1, cols)>> :
        cols \in {<<"eid">>, <<"dno", "eid">>, <<"eid", "nosuch">>, <<"nosuch">>, <<>>} }
    \cup { <<OrderByOf(1, cols)>> : cols \in {<<"eid">>, <<"nosuch">>, <<"dno", "eid">>} }
    \cup { <<OrderByOf(1, cols), SelectOf(2, <<"eid">>)>> : cols \in {<<"eid">>, <<"nosuch">>} }
    \cup { <<SelectOf(1, cols), OrderByOf(2, <<"dno">>)>> :
             cols \in {<<"eid">>, <<"eid", "nosuch">>} }
    \cup DrawnJoins

\* the loop is entered with step definitions and a current relation
RunSteps(defs, cur) ==
    /\ UNCHANGED parser
    /\ pc = "idle"
    /\ DOMAIN _get_tables_as_dataframes(table_rows) # {}
    /\ step_definitions' = defs
    /\ tables' = _get_tables_as_dataframes(table_rows)
    /\ current_df' = cur
    /\ k' = 1
    /\ steps' = <<>>
    /\ evaluator' = <<>>
    /\ mode' = "steps"
    /\ pc' = "steps"
    /\ UNCHANGED <<table_rows, query_text, left_df, right_df, response>>

\* the loop is left
StepsDone ==
    /\ UNCHANGED parser
    /\ pc = "final"
    /\ pc' = "idle"
    /\ mode' = ""
    /\ step_definitions' = <<>>
    /\ tables' = EmptyStore
    /\ steps' = <<>>
    /\ current_df' = NoCurrent
    /\ k' = 1
    /\ evaluator' = <<>>
    /\ UNCHANGED <<table_rows, query_text, left_df, right_df, response>>

NextSteps ==
    \/ \E t \in DOMAIN Catalogue : upload_csv(t)
    \/ clear_graph
    \/ \E defs \in DrawnPipelines, cur \in DrawnRelations : RunSteps(defs, cur)
    \/ ExecuteStep
    \/ StepsDone

SpecSteps == Init /\ [][NextSteps]_vars

----------------------------------------------------------------------------
(* Tables without rows *)

\* CSV files that have a header line and no row
HeaderOnly ==
    [emp  |-> [cols |-> <<"eid", "dno">>, rows |-> <<>>],
     dept |-> [cols |-> <<"dno", "loc">>, rows |-> <<>>]]

\* upload_csv of a file without rows: df.to_dict('records') is [], and
\* add_table stores it, over the rows the table had
upload_csv_header_only(t) ==
    /\ UNCHANGED parser
    /\ pc = "idle"
    /\ table_rows' = (t :> HeaderOnly[t]) @@ table_rows
    /\ UNCHANGED <<query_text, mode, pc, step_definitions, tables, steps, current_df,
                   left_df, right_df, k, response, evaluator>>

\* texts on emp, on dept and on both, and a text that compiles to no step
QueriesOnEmptied ==
    { Arms[1], Arms[3],
      SelectQuery("star", FALSE, 1, "JOIN", "none", "none", FALSE, "plain"),
      SelectQuery("star", FALSE, 0, "JOIN", "good", "none", FALSE, "plain"),
      <<Kw("SHOW"), SP, Kw("TABLES")>> }

NextEmptied ==
    \/ \E t \in DOMAIN Catalogue : upload_csv(t)
    \/ \E t \in DOMAIN HeaderOnly : upload_csv_header_only(t)
    \/ clear_graph
    \/ \E q \in QueriesOnEmptied, m \in {"final", "steps"} : compile_query(q, m)
    \/ ExecuteStep
    \/ FinalResult
    \/ Return

SpecEmptied == Init /\ [][NextEmptied]_vars

----------------------------------------------------------------------------
(* Properties of the step compiler *)

StepTypes(defs) == [n \in 1..Len(defs) |-> defs[n].step_type]

\* the clauses a SELECT text has
HasClause(text, w) == \E n \in 1..Len(text) : IsKw(text[n]) /\ In(w, text[n].v)
CountJoins(text) == Cardinality({n \in 1..Len(text) : IsKw(text[n]) /\ In("JOIN", text[n].v)})
IsSelectStar(text) == \E n \in 1..Len(text) : text[n] = Wild
\* From, Join*, Where?, GroupBy?, Having?, Select?, OrderBy? for a SELECT text
\* (a Select step is asked for only when the select list is not a bare *)
CanonicalTypes(text) ==
    <<STEP_FROM>>
    \o [n \in 1..CountJoins(text) |-> STEP_JOIN]
    \o (IF HasClause(text, "WHERE") THEN <<STEP_WHERE>> ELSE <<>>)
    \o (IF HasClause(text, "GROUP") THEN <<STEP_GROUP_BY>> ELSE <<>>)
    \o (IF HasClause(text, "HAVING") THEN <<STEP_HAVING>> ELSE <<>>)
    \o (IF ~IsSelectStar(text) THEN <<STEP_SELECT>> ELSE <<>>)
    \o (IF HasClause(text, "ORDER") THEN <<STEP_ORDER_BY>> ELSE <<>>)

\* C1: for every single-statement SELECT query the compiled steps' types are
\* exactly From, one Join per JOIN clause, then Where, GroupBy, Having,
\* Select, OrderBy, each of the optional ones present exactly when its clause
\* is in the text, whatever the whitespace between the clauses.
C1_CanonicalStepOrder ==
    (pc \in {"steps", "final"} /\ query_text \in SelectQueries)
        => StepTypes(step_definitions) = CanonicalTypes(query_text)

----------------------------------------------------------------------------
(* Properties of the step executor *)

NoAggregate(text) == \A n \in 1..Len(text) : text[n].v \notin AggFuncs
ColSet(cols) == {cols[n] : n \in 1..Len(cols)}
\* a row as the assignment of its values to the column names
AsRecord(cols, row) == [c \in ColSet(cols) |-> row[CHOOSE n \in 1..Len(cols) : cols[n] = c]]
Occurrences(cols, rows, rec) == Cardinality({m \in 1..Len(rows) : AsRecord(cols, rows[m]) = rec})
\* the same set of column names and the same multiset of rows
SameRelation(c1, r1, c2, r2) ==
    /\ ColSet(c1) = ColSet(c2)
    /\ Len(r1) = Len(r2)
    /\ \A n \in 1..Len(r1) :
          Occurrences(c1, r1, AsRecord(c1, r1[n])) = Occurrences(c2, r2, AsRecord(c1, r1[n]))

\* C2: in steps mode, for a query without aggregates and without UNION, the
\* output relation of the last pipeline step's record has the column names
\* and the row multiset of the result execute_query gives for the same text
\* and the same table store.
C2_LastStepIsFinalResult ==
    (/\ pc = "done" /\ mode = "steps" /\ response.status = "ok"
     /\ query_text \in SelectQueries /\ NoAggregate(query_text)
     /\ Len(response.steps) >= 2)
        => LET last == response.steps[Len(response.steps) - 1] IN
           /\ last.output_table # None
           /\ SameRelation(last.output_table[1].columns, last.output_table[1].data,
                           response.columns, response.rows)

PipelineTypes == {STEP_WHERE, STEP_GROUP_BY, STEP_HAVING, STEP_SELECT, STEP_ORDER_BY}

\* C3: the executor emits exactly one record per compiled step, in compiled
\* order, whatever the steps' outcomes: while the loops run the records are
\* those of the first compiled steps, and once they are over there are as
\* many records as compiled steps.
C3_OneRecordPerCompiledStep ==
    (pc \in {"steps", "left", "right", "union", "final"})
        => /\ Len(steps) <= Len(step_definitions)
           /\ \A n \in 1..Len(steps) :
                 /\ steps[n].step_number = step_definitions[n].step_number
                 /\ steps[n].step_type = step_definitions[n].step_type
           /\ pc = "final" => Len(steps) = Len(step_definitions)

\* C4: once a step's record carries no output relation, the next Where,
\* GroupBy, Having, Select or OrderBy step is handed no current relation: it
\* reports that it has no input and yields no output relation.
C4_NoRelationAfterFailure ==
    \A n \in 1..(Len(steps) - 1) :
        (steps[n].output_table = None /\ steps[n + 1].step_type \in PipelineTypes)
            => /\ steps[n + 1].error = "no input"
               /\ steps[n + 1].output_table = None

----------------------------------------------------------------------------
(* Properties of UNION statements *)

\* the two arms of a text with one UNION: the texts before and after it
UnionAt(text) == CHOOSE n \in 1..Len(text) : text[n] = Kw("UNION")
LeftArm(text) == Strip(SubSeq(text, 1, UnionAt(text) - 1))
RightArm(text) == Strip(SubSeq(text, UnionAt(text) + 1, Len(text)))

Rank(step_type) ==
    CASE step_type = STEP_FROM -> 1 [] step_type = STEP_JOIN -> 2
      [] step_type = STEP_WHERE -> 3 [] step_type = STEP_GROUP_BY -> 4
      [] step_type = STEP_HAVING -> 5 [] step_type = STEP_SELECT -> 6
      [] step_type = STEP_ORDER_BY -> 7 [] OTHER -> 8
\* From before Join before Where ... before OrderBy, only Join more than once
InCanonicalOrder(defs) ==
    \A i, j \in 1..Len(defs) :
        i < j => \/ Rank(defs[i].step_type) < Rank(defs[j].step_type)
                 \/ defs[i].step_type = STEP_JOIN /\ defs[j].step_type = STEP_JOIN

\* C5: a text with one top-level UNION between two SELECT statements compiles
\* to the steps of the left SELECT in canonical order, each tagged left, then
\* the steps of the right SELECT in canonical order, each tagged right, then
\* one Union step that carries both arm texts; the Union step is last and no
\* other step is a Union step.
C5_UnionCompilation ==
    (pc \in {"left", "right", "union", "final"} /\ query_text \in TwoArmUnions)
        => LET l == parse(LeftArm(query_text)).steps
               r == parse(RightArm(query_text)).steps
               n == Len(step_definitions) IN
           /\ n = Len(l) + Len(r) + 1
           /\ l # <<>> /\ r # <<>>
           /\ InCanonicalOrder(l) /\ InCanonicalOrder(r)
           /\ \A i \in 1..Len(l) :
                 step_definitions[i] = [l[i] EXCEPT !.union_side = "left", !.step_number = i]
           /\ \A i \in 1..Len(r) :
                 step_definitions[Len(l) + i] =
                     [r[i] EXCEPT !.union_side = "right", !.step_number = Len(l) + i]
           /\ step_definitions[n].step_type = STEP_UNION
           /\ step_definitions[n].step_number = n
           /\ step_definitions[n].union_side = ""
           /\ step_definitions[n].left_query = LeftArm(query_text)
           /\ step_definitions[n].right_query = RightArm(query_text)
           /\ \A i \in 1..(n - 1) : step_definitions[i].step_type # STEP_UNION

\* a two-arm UNION compiled and run to its Union step, its right arm of two
\* steps
C5_Witness ==
    /\ pc = "final" /\ query_text \in TwoArmUnions
    /\ Len(step_definitions) = 4
    /\ step_definitions[1].union_side = "left"
    /\ step_definitions[2].union_side = "right"
    /\ step_definitions[3].step_type = STEP_WHERE
    /\ step_definitions[3].union_side = "right"
    /\ steps[4].step_type = STEP_UNION

UnsupportedUnions == ManyArmUnions \cup BadTailUnions

\* C6: a text with more than one top-level UNION, or whose text after the
\* UNION does not start with SELECT, is rejected with a parse error: no step
\* is compiled, none is executed, and the response is an error.
C6_UnsupportedUnionRejected ==
    (mode = "steps" /\ query_text \in UnsupportedUnions)
        => /\ step_definitions = <<>>
           /\ steps = <<>>
           /\ pc = "done"
           /\ response.status = "error"

RowSet(rows) == {rows[n] : n \in 1..Len(rows)}
\* both arms of a two-arm UNION have run and left a relation, and the Union
\* step's record is the last one
UnionStepRan ==
    /\ pc = "final" /\ query_text \in TwoArmUnions
    /\ left_df.df # None /\ right_df.df # None
    /\ steps # <<>> /\ steps[Len(steps)].step_type = STEP_UNION

\* C7: when the two arms of a UNION yield different numbers of columns the
\* Union step fails explicitly: its record is an error record without an
\* output relation, never a relation padded with nulls or cut to fit.
C7_ColumnCountMismatchFails ==
    (UnionStepRan /\ Len(left_df.df[1].cols) # Len(right_df.df[1].cols))
        => /\ steps[Len(steps)].output_table = None
           /\ steps[Len(steps)].error # ""

\* C8: the Union step's output relation holds exactly the rows of the left
\* arm's output and of the right arm's output, each distinct row once.
C8_UnionIsDistinctRowsOfBothArms ==
    (UnionStepRan /\ Len(left_df.df[1].cols) = Len(right_df.df[1].cols)
     /\ steps[Len(steps)].output_table # None)
        => LET out == steps[Len(steps)].output_table[1].data IN
           /\ RowSet(out) = RowSet(_clean_for_json(left_df.df[1].rows))
                                \cup RowSet(_clean_for_json(right_df.df[1].rows))
           /\ \A i, j \in 1..Len(out) : out[i] = out[j] => i = j

----------------------------------------------------------------------------
(* Properties of the request handler's errors *)

\* C9: in steps mode a text that is empty, or whose statement is no SELECT,
\* is answered at once with an error: no step is compiled or run, and the
\* response carries neither a steps list nor a final_result.
C9_RejectedImmediately ==
    (mode = "steps" /\ query_text \in EmptyTexts \cup NonSelectTexts)
        => /\ pc = "done"
           /\ response.status = "error"
           /\ "steps" \notin response.keys
           /\ "final_result" \notin response.keys

\* the table a From or Join step loads
LoadedTable(step_def) ==
    IF step_def.step_type = STEP_FROM THEN step_def.tables[1] ELSE step_def.right_table

\* C10: when the table a From or Join step names is not in the table store
\* the step's record is an error record (a table-not-found error naming the
\* available tables), not a normal record with an empty input list and a
\* null output.
C10_MissingTableIsErrorRecord ==
    (pc \in {"steps", "final"} /\ query_text \in SelectQueries)
        => \A n \in 1..Len(steps) :
              (/\ step_definitions[n].step_type \in {STEP_FROM, STEP_JOIN}
               /\ LoadedTable(step_definitions[n]) \notin DOMAIN tables)
                  => steps[n].error # ""

----------------------------------------------------------------------------
(* Properties of the whole-query executor and of the DuckDB connections *)

\* the statements a call sent to DuckDB, in the order sent
Executed(call) ==
    LET sent == SelectSeq(call.log, LAMBDA e : e.ev = "execute") IN
    [n \in 1..Len(sent) |-> sent[n].sql]

\* the places of a text that bound its statements: its semicolons and its ends
Bounds(text) == {0, Len(text) + 1} \cup {i \in 1..Len(text) : text[i] = Pu(";")}
\* the segments between two neighbouring bounds that are not blank
Segments(text) ==
    {ab \in Bounds(text) \X Bounds(text) :
        /\ ab[1] < ab[2]
        /\ \A i \in Bounds(text) : ~(ab[1] < i /\ i < ab[2])
        /\ \E i \in (ab[1] + 1)..(ab[2] - 1) : ~IsWs(text[i])}
\* the last of them, without the blanks around it
LastStatement(text) ==
    LET ab == CHOOSE x \in Segments(text) : \A y \in Segments(text) : y[1] <= x[1] IN
    Strip(SubSeq(text, ab[1] + 1, ab[2] - 1))

\* C11: a call of execute_query sends DuckDB the last non-empty statement of
\* the text, once, and no other statement; a text without a non-empty
\* statement is rejected before a connection is made.
C11_OnlyLastStatementRuns ==
    \A n \in 1..Len(evaluator) :
        evaluator[n].by = "execute_query"
            => /\ Segments(query_text) = {} => evaluator[n].log = <<>>
               /\ evaluator[n].log # <<>>
                      => Executed(evaluator[n]) = <<LastStatement(query_text)>>
               /\ (Segments(query_text) # {} /\ DOMAIN _get_tables_as_dataframes(table_rows) # {})
                      => evaluator[n].log # <<>>

\* execute_query ran a text of two statements
C11_Witness ==
    /\ Cardinality(Segments(query_text)) >= 2
    /\ \E n \in 1..Len(evaluator) :
           evaluator[n].by = "execute_query" /\ Len(Executed(evaluator[n])) = 1

----------------------------------------------------------------------------
(* Properties of the JSON-ready payloads *)

Finite(v) == v # Null /\ v # PosInf /\ v # NegInf
\* the row lists of a step record
RowLists(rec) ==
    {rec.input_tables[n].data : n \in 1..Len(rec.input_tables)}
    \cup (IF rec.output_table = None THEN {} ELSE {rec.output_table[1].data})
\* every row list of the response
PayloadRowLists ==
    {response.rows} \cup UNION {RowLists(response.steps[n]) : n \in 1..Len(response.steps)}
Cells(rows) == UNION {{rows[r][c] : c \in 1..Len(rows[r])} : r \in 1..Len(rows)}
\* rows as they have to leave: the same rows and cells, None where the cell
\* is NaN or infinite
CleanedFrom(data, rows) ==
    /\ Len(data) = Len(rows)
    /\ \A r \in 1..Len(rows) :
          /\ Len(data[r]) = Len(rows[r])
          /\ \A c \in 1..Len(rows[r]) :
                data[r][c] = IF Finite(rows[r][c]) THEN rows[r][c] ELSE JsonNull

\* C12: no payload of execute_query or execute_query_steps holds a NaN or
\* an infinite value at any depth; cleaning changes nothing else (a step's
\* output rows are the rows of its DataFrame, None in place of NaN and of
\* +-infinity), and cleaning the cleaned step records again, as the response
\* of execute_query_steps does, leaves them as they are.
C12_PayloadsAreJsonSafe ==
    /\ \A rows \in PayloadRowLists : \A v \in Cells(rows) : Finite(v)
    /\ \A n \in 1..Len(steps) : \A rows \in RowLists(steps[n]) : \A v \in Cells(rows) : Finite(v)
    /\ (/\ pc \in {"steps", "final", "done"} /\ steps # <<>>
        /\ ~has_union(step_definitions)
        /\ steps[Len(steps)].output_table # None /\ current_df.df # None
        /\ ~IsEmptyDf(current_df.df[1]))
           => CleanedFrom(steps[Len(steps)].output_table[1].data, current_df.df[1].rows)
    /\ (pc = "done" /\ "steps" \in response.keys)
           => \A n \in 1..Len(steps) : response.steps[n] = steps[n]

\* a stepped run answered with a relation that held an infinite value
C12_Witness ==
    /\ pc = "done" /\ "steps" \in response.keys /\ steps # <<>>
    /\ current_df.df # None
    /\ PosInf \in Cells(current_df.df[1].rows)
    /\ JsonNull \in Cells(response.rows)
    /\ JsonNull \in Cells(response.steps[Len(steps)].output_table[1].data)

----------------------------------------------------------------------------
(* Properties of the table store *)

\* C13: no step of a query (compile_query in either mode, a step of
\* execute_query_steps, its final result, the return) changes the table
\* store: table names, row lists and row values stay, whether the query
\* succeeds, a step fails or the call raises.
C13_QueriesLeaveStoreUnchanged ==
    [][(pc # "idle" \/ pc' # "idle") => table_rows' = table_rows]_vars

\* a DELETE or a DROP was sent to DuckDB against a loaded store and answered
C13_Witness ==
    /\ pc = "done"
    /\ table_rows = [t \in {"emp", "dept"} |-> Catalogue[t]]
    /\ query_text \in NonSelectTexts \ {<<Kw("SHOW"), SP, Kw("TABLES")>>}
    /\ evaluator # <<>> /\ evaluator[1].log # <<>>

----------------------------------------------------------------------------
(* Properties of chained joins *)

\* the texts emp [e] JOIN dept [d] ON <emp>.dno = <dept>.dno
\*           JOIN proj [p] ON <dept>.dno = <proj>.dno, inner joins
ChainedJoins(aliased) ==
    {SelectQuery(sel, aliased, 2, "JOIN", "none", "none", FALSE, style) :
        sel \in {"star", "col"}, style \in Styles}

\* the rows of l and r joined on the i-th column of l and the j-th of r
JoinedOn(l, r, i, j) ==
    {l[p[1]] \o r[p[2]] : p \in {q \in (1..Len(l)) \X (1..Len(r)) : l[q[1]][i] = r[q[2]][j]}}

\* the second Join step of a chained join has run on the first one's output
\* and on dept's dno in it: the third column, named dno_1 there
SecondJoinOnFirstOutput ==
    /\ steps[1].output_table # None
    /\ steps[2].input_tables # <<>>
    /\ steps[2].input_tables[1].columns = steps[1].output_table[1].columns
    /\ steps[2].input_tables[1].data = steps[1].output_table[1].data
    /\ steps[2].output_table # None
    /\ RowSet(steps[2].output_table[1].data)
          = JoinedOn(steps[1].output_table[1].data, _clean_for_json(Catalogue["proj"].rows), 3, 2)

\* C17: in a chained join the second Join step's left input is the output of
\* the first Join step, and the left side of its ON condition, a column of
\* the middle table, is looked up among the columns of that output (where
\* de-duplication renamed it), not among those of a base table.
C17_SecondJoinUsesFirstOutput ==
    (/\ query_text \in ChainedJoins(TRUE) \cup ChainedJoins(FALSE)
     /\ mode = "steps" /\ pc \in {"steps", "final", "done"} /\ Len(steps) >= 2
     /\ DOMAIN tables = DOMAIN Catalogue)
        => SecondJoinOnFirstOutput

\* the same for the texts that give every table an alias
AliasedChainUsesFirstOutput ==
    (/\ query_text \in ChainedJoins(TRUE)
     /\ mode = "steps" /\ pc \in {"steps", "final", "done"} /\ Len(steps) >= 2
     /\ DOMAIN tables = DOMAIN Catalogue)
        => SecondJoinOnFirstOutput

----------------------------------------------------------------------------
(* Properties of repeated compilation *)

\* what two compilations have to agree in: the step types in their order, the
\* step numbers, the column sets and the aggregate aliases
Compiled(defs) ==
    [n \in 1..Len(defs) |->
        [step_type |-> defs[n].step_type, step_number |-> defs[n].step_number,
         columns |-> {defs[n].columns[i] : i \in 1..Len(defs[n].columns)},
         aliases |-> [i \in 1..Len(defs[n].aggregates) |-> defs[n].aggregates[i].alias]]]

\* C16: a text compiled again, on the same parser or on a new one and with
\* any other texts compiled in between, gives the step types, step numbers,
\* column sets and aggregate aliases its first compilation gave.
C16_CompilationIsRepeatable ==
    parser.last.again
        => Compiled(parser.last.steps) = Compiled(parser.first[parser.last.text])

\* the text with a HAVING clause compiled again on a parser that had compiled
\* before, after another text
C16_Witness ==
    /\ parser.last.again /\ parser.last.reused
    /\ Cardinality(DOMAIN parser.first) >= 2
    /\ \E n \in 1..Len(parser.last.steps) : parser.last.steps[n].aggregates # <<>>

----------------------------------------------------------------------------
(* Properties of the aggregate aliases *)

\* a name of the texts in lower case
LowerCase(w) ==
    CASE w = "COUNT" -> "count" [] w = "MAX" -> "max" [] w = "MIN" -> "min"
      [] w = "SUM" -> "sum" [] w = "AVG" -> "avg" [] w = "Eid" -> "eid" [] OTHER -> w

\* the aggregate invocations of a condition, in the order written: the
\* function, and the column, which is the name before the closing parenthesis
Invocations(cond) ==
    LET opens == {i \in 1..Len(cond) - 1 : cond[i].v \in AggFuncs /\ cond[i + 1].v = "("}
        Closing(i) == CHOOSE j \in i..Len(cond) : cond[j].v = ")" /\ \A m \in i..j - 1 : cond[m].v # ")"
        Nth(n) == CHOOSE i \in opens : Cardinality({j \in opens : j < i}) = n - 1 IN
    [n \in 1..Cardinality(opens) |->
        [func |-> cond[Nth(n)].v, col |-> cond[Closing(Nth(n)) - 1].v,
         distinct |-> cond[Nth(n) + 2].v = "DISTINCT",
         from |-> Nth(n), to |-> Closing(Nth(n))]]

\* base when it is not in taken, else base_n for the smallest n >= 2 for which
\* base_n is not in taken
SmallestFree(base, taken) ==
    LET Suffixed(n) == base \o "_" \o ToString(n)
        free == {n \in 2..Cardinality(taken) + 2 : Suffixed(n) \notin taken} IN
    IF base \notin taken THEN base
    ELSE Suffixed(CHOOSE n \in free : \A m \in free : n <= m)

HavingSteps(defs) == {n \in 1..Len(defs) : defs[n].step_type = STEP_HAVING}
GroupBySteps(defs) == {n \in 1..Len(defs) : defs[n].step_type = STEP_GROUP_BY}

\* the aliases of a compiled Having step are the ones the rule gives, pairwise
\* distinct, and those of the GroupBy step
AliasesByRule(defs, h) ==
    LET aggs == defs[h].aggregates
        calls == Invocations(defs[h].condition) IN
    /\ Len(aggs) = Len(calls)
    /\ \A n \in 1..Len(aggs) :
          aggs[n].alias = SmallestFree(LowerCase(calls[n].func) \o "_" \o LowerCase(calls[n].col),
                                       {aggs[m].alias : m \in 1..n - 1})
    /\ \A n, m \in 1..Len(aggs) : n # m => aggs[n].alias # aggs[m].alias
    /\ \A g \in GroupBySteps(defs) :
          /\ Len(defs[g].aggregates) = Len(aggs)
          /\ \A n \in 1..Len(aggs) : defs[g].aggregates[n].alias = aggs[n].alias

\* C18: for every HAVING condition the k-th aggregate invocation gets the
\* alias <function>_<column>, all of it in lower case, with the smallest
\* suffix _2, _3, ... when that alias was assigned earlier in the condition;
\* the aliases of one list are pairwise distinct, and the GroupBy step
\* carries the very aliases of the Having step.
C18_AliasesFollowTheRule ==
    \A h \in HavingSteps(parser.last.steps) : AliasesByRule(parser.last.steps, h)

\* the same for the conditions whose columns are written in lower case
LowerCaseTextsFollowTheRule ==
    (\A n \in 1..Len(parser.last.text) : parser.last.text[n].v # "Eid")
        => \A h \in HavingSteps(parser.last.steps) : AliasesByRule(parser.last.steps, h)

----------------------------------------------------------------------------
(* Properties of the GroupBy step *)

\* the GroupBy steps before the Having step h, and those of them compiled
\* from the SELECT statement of h (in a UNION: from the arm of h)
GroupsBefore(defs, h) == {g \in GroupBySteps(defs) : g < h}
GroupsOfStatement(defs, h) ==
    {g \in GroupsBefore(defs, h) : defs[g].union_side = defs[h].union_side}
Nearest(groups) == CHOOSE g \in groups : \A m \in groups : m <= g

\* the Having steps that carry aggregates
AggregatingHavings(defs) == {h \in HavingSteps(defs) : defs[h].aggregates # <<>>}

\* the GroupBy step g carries the aggregate list of the Having step h, and its
\* output, when it has run and has one, is the group keys and then one
\* column per alias
CarriesListOf(g, h) ==
    /\ step_definitions[g].aggregates = step_definitions[h].aggregates
    /\ step_definitions[g].columns # <<>>
    /\ (Len(steps) >= g /\ steps[g].output_table # None)
          => steps[g].output_table[1].columns
               = step_definitions[g].columns
                 \o [n \in 1..Len(step_definitions[h].aggregates) |->
                        step_definitions[h].aggregates[n].alias]

\* the steps that carry aggregates are the Having steps and the GroupBy
\* steps these name through attached
OnlyAttached(attached(_)) ==
    \A n \in 1..Len(step_definitions) :
        step_definitions[n].aggregates # <<>>
            => \/ n \in HavingSteps(step_definitions)
               \/ \E h \in AggregatingHavings(step_definitions) :
                     attached(h) # {} /\ n = Nearest(attached(h))

----------------------------------------------------------------------------
(* Properties of the Select and OrderBy steps *)

\* the elements of names that are in among, in the order of names
Resolved(names, among) == SelectSeq(names, LAMBDA c : c \in ColSet(among))
Unresolved(names, among) == SelectSeq(names, LAMBDA c : c \notin ColSet(among))

\* the step n of the loop has run, on a current relation
RanOnInput(n, step_type) ==
    /\ pc \in {"steps", "final"} /\ Len(steps) >= n
    /\ step_definitions[n].step_type = step_type
    /\ steps[n].input_tables # <<>>

\* the Select steps that have run, naming known and unknown columns
MixedSelects ==
    {n \in 1..Len(steps) :
        /\ RanOnInput(n, STEP_SELECT)
        /\ Resolved(step_definitions[n].columns, steps[n].input_tables[1].columns) # <<>>
        /\ Unresolved(step_definitions[n].columns, steps[n].input_tables[1].columns) # <<>>}

RejectedSorts ==
    {n \in 1..Len(steps) :
        /\ RanOnInput(n, STEP_ORDER_BY)
        /\ Unresolved(step_definitions[n].columns, steps[n].input_tables[1].columns) # <<>>}

\* a table dict has the columns and the rows of another
SameTable(a, b) == a.columns = b.columns /\ a.data = b.data

\* the relation handed on after step n is the input of step n
HandsOnItsInput(n) ==
    IF n < Len(steps)
    THEN steps[n + 1].input_tables # <<>>
         /\ SameTable(steps[n + 1].input_tables[1], steps[n].input_tables[1])
    ELSE SameTable(_dataframe_to_table_dict(current_df.df, ""), steps[n].input_tables[1])

\* what an OrderBy step says when it has sorted
SortedExplanation(cols) == <<"Sorting by">> \o cols

\* the output, the record and the relation handed on of an OrderBy step whose
\* sort was rejected
FallsBackToInput(n) ==
    /\ steps[n].error = ""
    /\ steps[n].output_table # None
    /\ SameTable(steps[n].output_table[1], steps[n].input_tables[1])
    /\ HandsOnItsInput(n)

\* C23: when the evaluator rejects the sort of an OrderBy step, the step's
\* output is its input unchanged, the relation handed to a later step is that
\* input, the step is not an error record, and its explanation says that the
\* unsorted input was returned (it is not the explanation of a sort).
C23_RejectedSortFallsBack ==
    \A n \in RejectedSorts :
        /\ FallsBackToInput(n)
        /\ steps[n].explanation # SortedExplanation(step_definitions[n].columns)

\* the same without the explanation
RejectedSortKeepsInput == \A n \in RejectedSorts : FallsBackToInput(n)

----------------------------------------------------------------------------
(* Properties of the Join step *)

\* the statements step n had the evaluator execute
Executes(n) == SelectSeq(evaluator[n].log, LAMBDA e : e.ev = "execute")

\* the Join steps that have run and whose statement the evaluator rejected:
\* a second statement was tried
RejectedJoins ==
    {n \in 1..Len(steps) : RanOnInput(n, STEP_JOIN) /\ Len(Executes(n)) > 1}

\* the columns the two inputs of Join step n share
CommonColumns(n) ==
    ColSet(steps[n].input_tables[1].columns) \cap ColSet(steps[n].input_tables[2].columns)

ColumnAt(columns, c) == CHOOSE i \in 1..Len(columns) : columns[i] = c

\* the rows of the natural join of the inputs of Join step n on the common
\* column c, of the kind the step names: a LEFT join keeps a left row no
\* right row matches, padded with nulls
NaturalJoinRows(n, c) ==
    LET l == steps[n].input_tables[1]
        r == steps[n].input_tables[2]
        i == ColumnAt(l.columns, c)
        j == ColumnAt(r.columns, c)
        unmatched == {m \in 1..Len(l.data) :
                         \A x \in 1..Len(r.data) : l.data[m][i] # r.data[x][j]} IN
    JoinedOn(l.data, r.data, i, j)
    \cup (IF step_definitions[n].join_type = "LEFT"
          THEN {l.data[m] \o [x \in 1..Len(r.columns) |-> JsonNull] : m \in unmatched}
          ELSE {})

\* C24: when the evaluator rejects the ON condition of a Join step, the join
\* is retried as a natural join on a column the two inputs share, of the same
\* join kind; the step has no output only when the inputs share no column.
C24_RejectedJoinRetriedAsNatural ==
    \A n \in RejectedJoins :
        CommonColumns(n) # {} =>
            /\ steps[n].output_table # None
            /\ \E c \in CommonColumns(n) :
                   {steps[n].output_table[1].data[m] :
                       m \in 1..Len(steps[n].output_table[1].data)} = NaturalJoinRows(n, c)

\* the statement retried is the rejected one with its join kind left out
RetryKeepsCondition ==
    \A n \in RejectedJoins :
        LET first == TokenValues(NoWs(Executes(n)[1].sql))
            second == TokenValues(NoWs(Executes(n)[2].sql)) IN
        /\ Len(Executes(n)) = 2
        /\ \E x \in 1..Len(first) :
               /\ SubSeq(first, 1, x - 1) = SubSeq(second, 1, x - 1)
               /\ SubSeq(first, x + 1, Len(first)) = SubSeq(second, x + 1, Len(second))
               /\ second[x] = "JOIN"
        /\ steps[n].output_table = None

\* the Join steps that have run on a condition whose first reference is
\* alias.col with an alias that is neither a declared alias nor a table name
\* of the step
OldAliasJoins ==
    {n \in 1..Len(steps) :
        /\ RanOnInput(n, STEP_JOIN)
        /\ Len(NoWs(step_definitions[n].condition)) >= 3
        /\ NoWs(step_definitions[n].condition)[2].v = "."
        /\ NoWs(step_definitions[n].condition)[1].v
               \notin {step_definitions[n].left_table_alias,
                        step_definitions[n].right_table_alias, TABLE_LEFT,
                        steps[n].input_tables[1].name, step_definitions[n].left_table,
                        step_definitions[n].right_table}}

\* the reference the priority exact name, name_<number>, name ignoring case,
\* left_table.name gives for col
ExactFirst(col, cols) ==
    IF col \in ColSet(cols) THEN <<col>>
    ELSE IF SuffixMatch(cols, col) # "" THEN <<SuffixMatch(cols, col)>>
    ELSE IF LowerMatch(cols, col) # "" THEN <<LowerMatch(cols, col)>>
    ELSE <<TABLE_LEFT, ".", col>>
\* the reference the priority name_<number>, exact name, name ignoring case,
\* left_table.name gives for col
SuffixFirst(col, cols) ==
    IF SuffixMatch(cols, col) # "" THEN <<SuffixMatch(cols, col)>>
    ELSE ExactFirst(col, cols)

\* the ON condition of the statement Join step n executed first starts with
\* the reference ref
ConditionStartsWith(n, ref) ==
    LET vals == TokenValues(NoWs(Executes(n)[1].sql))
        on == CHOOSE x \in 1..Len(vals) : vals[x] = "ON" IN
    /\ Len(vals) >= on + Len(ref) + 1
    /\ SubSeq(vals, on + 1, on + Len(ref)) = ref
    /\ vals[on + Len(ref) + 1] = "="

\* C25: a reference alias.col whose alias is neither a declared alias nor a
\* table name of the step is resolved by the priority: a column named exactly
\* col, else a column col_<number>, else a column equal to col ignoring case,
\* else left_table.col.
C25_ExactNameFirst ==
    \A n \in OldAliasJoins :
        ConditionStartsWith(n, ExactFirst(NoWs(step_definitions[n].condition)[3].v,
                                          steps[n].input_tables[1].columns))

\* the priority the resolver has: a column col_<number> before the column
\* named exactly col
SuffixBeforeExact ==
    \A n \in OldAliasJoins :
        ConditionStartsWith(n, SuffixFirst(NoWs(step_definitions[n].condition)[3].v,
                                           steps[n].input_tables[1].columns))

\* the loop that is running, its current relation and the step definition
\* it is about to execute
LoopRuns == pc \in {"steps", "left", "right"}
LoopCurrent ==
    CASE pc = "left" -> left_df [] pc = "right" -> right_df [] OTHER -> current_df
LoopStep ==
    CASE pc = "left" -> left_steps(step_definitions)[k]
      [] pc = "right" -> right_steps(step_definitions)[k]
      [] OTHER -> step_definitions[k]

\* the record of the Join step a loop has just executed: its left side is
\* the current relation when there was one; else the first FROM table, whole,
\* when the table map has it, and the error 'missing left table' when not
JoinLeftSide(rec) ==
    LET first_from == IF LoopStep.from_tables # <<>> THEN LoopStep.from_tables[1] ELSE "" IN
    IF LoopCurrent.df # None
    THEN /\ rec.error # "missing left table"
         /\ rec.input_tables # <<>> =>
                SameTable(rec.input_tables[1], _dataframe_to_table_dict(LoopCurrent.df, ""))
    ELSE IF first_from \in DOMAIN tables
    THEN /\ rec.error # "missing left table"
         /\ rec.input_tables # <<>> =>
                rec.input_tables[1]
                    = _dataframe_to_table_dict(Some(tables[first_from]), first_from)
    ELSE rec.error = "missing left table"

\* C29: a Join step executed while the current relation is 'none' takes the
\* whole first FROM table as its left side and gives the error 'missing left
\* table' only when that table is not in the table map; a Join step executed
\* with a current relation has that relation as its left side.
C29_JoinLeftSide ==
    [][LoopRuns /\ LoopStep.step_type = STEP_JOIN /\ Len(steps') = Len(steps) + 1
           => JoinLeftSide(steps'[Len(steps')])]_vars

\* a Join step has loaded the FROM table and a second Join step has run on
\* the output of the first
C29_Witness ==
    /\ mode = "steps" /\ pc \in {"steps", "final"}
    /\ Len(steps) >= 2
    /\ steps[1].step_type = STEP_JOIN /\ steps[1].output_table # None
    /\ steps[2].step_type = STEP_JOIN /\ steps[2].input_tables # <<>>
    /\ ~SameTable(steps[2].input_tables[1], steps[1].input_tables[1])

\* a Join step executed on 'none' has given the error 'missing left table'
MissingLeftTable ==
    /\ mode = "steps" /\ steps # <<>>
    /\ steps[1].step_type = STEP_JOIN /\ steps[1].error = "missing left table"

----------------------------------------------------------------------------
(* Properties of the tables without rows *)

ZeroRowTables == {t \in DOMAIN table_rows : table_rows[t].rows = <<>>}

\* a request is being served or has been answered
Requested == pc \in {"steps", "final", "done"}

\* the From steps that have run and name tables without rows only
FromZeroRows ==
    {n \in 1..Len(steps) :
        /\ pc \in {"steps", "final"}
        /\ step_definitions[n].step_type = STEP_FROM
        /\ step_definitions[n].tables # <<>>
        /\ ColSet(step_definitions[n].tables) \subseteq ZeroRowTables}

\* C30: a table loaded with zero rows is not in the table map of a query; a
\* From step naming only such tables gives a record with no input table and
\* a null output and leaves the current relation 'none'; and when every
\* loaded table has zero rows, execute_query and execute_query_steps raise
\* 'No tables available' and no evaluator session is opened.
C30_ZeroRowTablesAreNotLoaded ==
    /\ Requested => DOMAIN tables \cap ZeroRowTables = {}
    /\ \A n \in FromZeroRows :
           /\ steps[n].input_tables = <<>>
           /\ steps[n].output_table = None
           /\ steps[n].error = ""
           /\ n = Len(steps) => current_df = NoCurrent
    /\ (pc = "done" /\ ZeroRowTables # {} /\ ZeroRowTables = DOMAIN table_rows) =>
           /\ response = ErrorResponse("No tables available. Please upload data first.")
           /\ \A c \in 1..Len(evaluator) : evaluator[c].log = <<>>

\* a From step has run on a table without rows, beside a table with rows
C30_Witness ==
    /\ FromZeroRows # {}
    /\ DOMAIN tables # {}
    /\ current_df = NoCurrent

\* a request has been answered while every loaded table had zero rows
AnsweredOnZeroRowsOnly ==
    /\ pc = "done" /\ mode \in {"final", "steps"}
    /\ ZeroRowTables # {} /\ ZeroRowTables = DOMAIN table_rows

----------------------------------------------------------------------------
(* Properties of the arms of a UNION *)

\* the records of the step definitions defs from the i-th on, executed in
\* turn on their own from the relation cur
RECURSIVE OnItsOwn(_, _, _)
OnItsOwn(defs, i, cur) ==
    IF i > Len(defs) THEN <<>>
    ELSE LET Then(step_result) ==
                 <<step_result.rec>>
                 \o OnItsOwn(defs, i + 1, _update_step_state(step_result, cur))
         IN  Then(_execute_step(defs[i], cur, tables, None, None, table_rows))

\* both arms of a UNION have been executed
ArmsExecuted ==
    /\ mode = "steps" /\ pc \in {"union", "final"}
    /\ has_union(step_definitions)
    /\ Len(steps) >= Len(left_steps(step_definitions)) + Len(right_steps(step_definitions))

LeftRecords == SubSeq(steps, 1, Len(left_steps(step_definitions)))
RightRecords ==
    SubSeq(steps, Len(left_steps(step_definitions)) + 1,
           Len(left_steps(step_definitions)) + Len(right_steps(step_definitions)))

\* C26: in a UNION the right arm starts from the current relation 'none', and
\* the records of each arm are the records its steps give executed on their
\* own from 'none' against the table map, whatever the other arm produced.
C26_ArmsAreIndependent ==
    /\ (pc = "right" /\ k = 1) => right_df = NoCurrent
    /\ ArmsExecuted =>
          /\ LeftRecords = OnItsOwn(left_steps(step_definitions), 1, NoCurrent)
          /\ RightRecords = OnItsOwn(right_steps(step_definitions), 1, NoCurrent)

\* both arms have been executed and have left two different relations
C26_Witness ==
    /\ ArmsExecuted
    /\ RightRecords # <<>>
    /\ left_df.df # None /\ right_df.df # None
    /\ left_df # right_df

\* both arms have been executed, every step of the left arm has failed, and
\* the right arm has left a relation
RightArmAfterFailedLeftArm ==
    /\ ArmsExecuted
    /\ LeftRecords # <<>>
    /\ left_df.df = None /\ right_df.df # None

----------------------------------------------------------------------------
(* Properties of the current relation *)

\* a record of a step that succeeded: no error, and an output
Succeeded(rec) == rec.error = "" /\ rec.output_table # None

\* the loop of a pipeline without UNION is running or has run
PlainPipeline ==
    /\ mode = "steps" /\ pc \in {"steps", "final"}
    /\ ~has_union(step_definitions)

NoInputAfterSuccess ==
    /\ PlainPipeline
    /\ \E n \in 1..(Len(steps) - 1) :
           Succeeded(steps[n]) /\ steps[n + 1].input_tables = <<>>

----------------------------------------------------------------------------
(* Properties of the step numbers *)

\* execute_query_steps has answered with a steps list that has records (with
\* no step compiled the list is empty and no FINAL_RESULT record is appended)
StepsAnswered ==
    /\ mode = "steps" /\ pc = "done"
    /\ response.status = "ok" /\ "steps" \in response.keys
    /\ response.steps # <<>>

\* the records of the response are numbered by their position, and the last
\* one is the FINAL_RESULT record
NumberedByPosition ==
    /\ \A i \in 1..Len(response.steps) : response.steps[i].step_number = i
    /\ response.steps[Len(response.steps)].step_type = STEP_FINAL_RESULT

\* the UNION keywords of the text of the request
UnionsOfText == {n \in 1..Len(query_text) : In("UNION", query_text[n].v)}

\* C28: in every response of execute_query_steps the record at position i of
\* the steps list has step_number i, through the arms of a UNION and the Union
\* step, and the FINAL_RESULT record is the last one.
C28_PositionIsStepNumber == StepsAnswered => NumberedByPosition

\* the same of the responses to a text with at most one UNION
OneUnionPositionIsStepNumber ==
    StepsAnswered /\ Cardinality(UnionsOfText) <= 1 => NumberedByPosition

----------------------------------------------------------------------------
(* Properties of the Having step *)

\* a condition with its n-th aggregate invocation replaced by the n-th alias
RECURSIVE Rewritten(_, _, _, _)
Rewritten(cond, i, calls, aliases) ==
    LET here == {n \in 1..Len(calls) : calls[n].from = i} IN
    IF i > Len(cond) THEN <<>>
    ELSE IF here # {}
         THEN LET n == CHOOSE c \in here : TRUE IN
              <<Nm(aliases[n])>> \o Rewritten(cond, calls[n].to + 1, calls, aliases)
    ELSE <<cond[i]>> \o Rewritten(cond, i + 1, calls, aliases)

\* the condition of the statement SELECT * FROM input_table WHERE <condition>
\* a call ran, <<>> when it ran none
Evaluated(call) ==
    LET ran == Executed(call)
        start == Len(SelectStarFrom(TABLE_INPUT)) + 4 IN
    IF ran = <<>> THEN <<>> ELSE SubSeq(ran[1], start, Len(ran[1]))

\* the Having steps of the running request that have run
HavingStepsRun ==
    {h \in HavingSteps(step_definitions) :
        /\ pc \in {"steps", "final", "done"} /\ ~has_union(step_definitions)
        /\ Len(steps) >= h /\ Len(evaluator) >= h /\ Executed(evaluator[h]) # <<>>}

\* the Having step h evaluated its condition with every invocation replaced
\* by that invocation's alias
ReplacedByOwnAlias(h) ==
    LET aggs == step_definitions[h].aggregates
        condition == step_definitions[h].condition
        calls == Invocations(condition)
        evaluated == Evaluated(evaluator[h])
        grouped == {g \in GroupBySteps(step_definitions) : g < h} IN
    /\ Len(aggs) = Len(calls)
    /\ evaluated = Rewritten(condition, 1, calls, [n \in 1..Len(aggs) |-> aggs[n].alias])
    /\ Invocations(evaluated) = <<>>
    /\ \A g \in grouped :
          /\ steps[g].output_table # None
          /\ \A n \in 1..Len(evaluated) :
                evaluated[n].tt = "Name"
                    => evaluated[n].v \in ColSet(steps[g].output_table[1].columns)
    /\ \A n, m \in 1..Len(calls) :
          [func |-> calls[n].func, col |-> calls[n].col, distinct |-> calls[n].distinct]
              # [func |-> calls[m].func, col |-> calls[m].col, distinct |-> calls[m].distinct]
            => aggs[n].alias # aggs[m].alias

\* C20: the Having step replaces every aggregate invocation of the raw
\* condition by the alias assigned to that invocation at compile time before
\* it evaluates the condition: no aggregate call is left, every alias is a
\* column of the GroupBy step's output, and COUNT(x) and COUNT(DISTINCT x)
\* are replaced by their two aliases.
C20_HavingUsesAssignedAliases ==
    \A h \in HavingStepsRun : ReplacedByOwnAlias(h)

\* the same for the conditions with one aggregate invocation
OneInvocationUsesItsAlias ==
    \A h \in HavingStepsRun :
        Len(Invocations(step_definitions[h].condition)) = 1 => ReplacedByOwnAlias(h)

----------------------------------------------------------------------------
(* Properties of the entry points kept from the earlier interface *)

\* C19: compile_query returns a query_id and a list of steps for every
\* supported query, and the visual state of the final step has an output
\* table with the rows and the column set of the query's final result.
C19_FinalStateIsFinalResult ==
    /\ pc = "compiled" => {"query_id", "steps"} \subseteq response.keys
    /\ (pc = "done" /\ mode = "state")
          => /\ response.status = "ok"
             /\ "output_table" \in response.keys
             /\ Len(response.rows) = Len(execute_query(table_rows, query_text).rows)
             /\ ColSet(response.columns) = ColSet(execute_query(table_rows, query_text).columns)

----------------------------------------------------------------------------
(* Properties of the DuckDB connections, continued *)

\* the connections open after the first i events of a log
OpenAfter(log, i) ==
    Cardinality({j \in 1..i : log[j].ev = "connect"})
    - Cardinality({j \in 1..i : log[j].ev = "close"})

\* C15: every DuckDB connection a call opens is closed when the call is
\* over, whether its statement succeeded or raised; a call never has two
\* connections open at a time, and statements run on an open connection.
C15_ConnectionsAreClosed ==
    \A n \in 1..Len(evaluator) :
        LET log == evaluator[n].log IN
        /\ \A i \in 0..Len(log) : OpenAfter(log, i) \in {0, 1}
        /\ OpenAfter(log, Len(log)) = 0
        /\ \A i \in 1..Len(log) : log[i].ev = "execute" => OpenAfter(log, i) = 1

\* a Join step whose statement raised and whose fallback statement ran on a
\* second connection, and an execute_query whose statement raised
C15_Witness ==
    /\ \E n \in 1..Len(evaluator) :
           /\ evaluator[n].by = "_execute_step"
           /\ Cardinality({i \in 1..Len(evaluator[n].log) : evaluator[n].log[i].ev = "connect"}) = 2
    /\ \E n \in 1..Len(evaluator) :
           /\ evaluator[n].by = "execute_query" /\ evaluator[n].log # <<>>
    /\ response.status = "error"

====
